---------------------------- MODULE Spec2Model ----------------------------
(***************************************************************************)
(* A model of gogl's rendering pipeline state manager (package pipeline)   *)
(* and of its GPU resources (package resource): buffers, the buffer pool,  *)
(* vertex layouts, vertex arrays and meshes.                               *)
(*                                                                         *)
(* The graphics context is modelled as the record gl, holding the part of  *)
(* the OpenGL state the pipeline writes; every driver call an operation    *)
(* issues is also appended to calls, which holds the calls of the last     *)
(* operation only.                                                         *)
(***************************************************************************)
EXTENDS Integers, Sequences, FiniteSets, TLC

VARIABLES
    \* --- package pipeline: type Pipeline ---
    currentState,     \* contents of the State object p.currentState points to
    callerAlias,      \* TRUE iff that object is the one the caller passed to SetState
    stateStack,       \* sequence of State copies (each owned by the stack alone)
    lastProgramID,    \* diff cache
    lastBlendState,
    lastDepthState,
    lastCullState,
    \* --- the graphics context and the driver calls of the last operation ---
    gl,
    calls,
    \* --- history: the last operation, its error, and what it had to restore ---
    last,
    pushed,           \* GetState() as it was at each PushState still on the stack
    nops,             \* number of operations executed so far
    \* --- State.Validate: the State it is called on, as it is and as it was
    \*     handed over, and the error returned ("pending" before the call) ---
    subject,
    original,
    verdict,
    \* --- package resource: the Buffer objects and type BufferPool ---
    buffers,          \* the Buffer objects created so far, by object number
    availableBuffers, \* target -> sequence of Buffer objects
    inUseBuffers,     \* Buffer.ID -> Buffer object
    glBuffers,        \* the driver's live buffer names
    poolCalls,        \* the driver calls of the last pool operation
    poolLast,         \* history: the last pool operation and what it returned
    held,             \* history: objects acquired and not released since
    disciplined,      \* history: every Release so far was of a held object
    \* --- package pipeline: type Builder ---
    builder,          \* the State object b.state points to, and its history
    \* --- package resource: type VertexLayout ---
    layout,           \* Attributes and Stride
    declared,         \* history: the Add* calls made on it, in order
    \* --- package resource: IndexBuffer, VertexArray and Mesh objects ---
    indexBuffers,     \* the IndexBuffer objects created so far, by object number
    vertexArrays,     \* the VertexArray objects created so far, by object number
    glVertexArrays,   \* the driver's live vertex array names
    meshes,           \* the Mesh objects created so far, by object number
    resCalls,         \* the driver calls of the last resource operation
    resLast,          \* history: the last resource operation
    driverDeletes     \* history: driver deletes issued so far, per object

pipeState == <<currentState, callerAlias, stateStack, lastProgramID, lastBlendState,
               lastDepthState, lastCullState, gl, calls, last, pushed>>

pipeVars == <<pipeState, nops>>

valVars == <<subject, original, verdict>>

poolVars == <<buffers, availableBuffers, inUseBuffers, glBuffers, poolCalls,
              poolLast, held, disciplined>>

builderVars == <<builder>>

layoutVars == <<layout, declared>>

resVars == <<indexBuffers, vertexArrays, glVertexArrays, meshes, resCalls, resLast,
             driverDeletes>>

extVars == <<builderVars, layoutVars, resVars>>

vars == <<pipeVars, valVars, poolVars, extVars>>

-----------------------------------------------------------------------------
(* Bounds *)

MaxOps == 5

MaxStack == 2

\* Buffer objects created in one run.
MaxBufs == 3

\* Buffer objects a pool creates in one run.
MaxPoolBufs == 2

\* Operations on a pool in one run.
MaxPoolOps == 5

\* With* calls on a Builder in one run.
MaxWiths == 3

\* Add* calls on a VertexLayout in one run.
MaxAttrs == 3

\* VertexArray objects created in one run.
MaxVAOs == 2

\* Operations on buffers, vertex arrays and meshes in one run.
MaxResOps == 4

-----------------------------------------------------------------------------
(* package pipeline: the State type *)

\* A nil *shader.Program.
Nil == "nil"

\* A *State: the nil pointer, or a pointer to an object holding s.
NilState == << >>

Ref(s) == <<s>>

Deref(ptr) == ptr[1]

\* The shader programs a caller may reference; ProgID is Program.ID.
Programs == {"P1", "P2"}

ProgID(p) == IF p = "P1" THEN 1 ELSE 2

DefaultStateBlending ==
    [ Program        |-> Nil,
      BlendEnabled   |-> TRUE,
      BlendSrc       |-> "SRC_ALPHA",
      BlendDst       |-> "ONE_MINUS_SRC_ALPHA",
      DepthEnabled   |-> TRUE,
      DepthWrite     |-> TRUE,
      DepthFunc      |-> "LESS",
      CullEnabled    |-> TRUE,
      CullFace       |-> "BACK",
      ViewportX      |-> 0,
      ViewportY      |-> 0,
      ViewportWidth  |-> 800,
      ViewportHeight |-> 600,
      WireframeMode  |-> FALSE,
      Primitive      |-> "TRIANGLES" ]

\* DefaultState(): what the new State object holds.
DefaultState ==
    [ Program        |-> Nil,
      BlendEnabled   |-> FALSE,
      BlendSrc       |-> "SRC_ALPHA",
      BlendDst       |-> "ONE_MINUS_SRC_ALPHA",
      DepthEnabled   |-> TRUE,
      DepthWrite     |-> TRUE,
      DepthFunc      |-> "LESS",
      CullEnabled    |-> TRUE,
      CullFace       |-> "BACK",
      ViewportX      |-> 0,
      ViewportY      |-> 0,
      ViewportWidth  |-> 800,
      ViewportHeight |-> 600,
      WireframeMode  |-> FALSE,
      Primitive      |-> "TRIANGLES" ]

CullNone == "NONE"

BlendZero == "ZERO"

\* The OpenGL context right after creation (OpenGL's documented initial
\* values; the viewport is the 800x600 window of the examples).
GLInit ==
    [ program   |-> 0,
      blend     |-> FALSE, blendSrc  |-> "ONE",  blendDst  |-> "ZERO",
      depthTest |-> FALSE, depthFunc |-> "LESS", depthMask |-> TRUE,
      cull      |-> FALSE, cullFace  |-> "BACK",
      viewport  |-> <<0, 0, 800, 600>>,
      polygonMode |-> "FILL" ]

-----------------------------------------------------------------------------
(* The inputs the callers draw from *)

\* A state with blending on, depth test off, culling "enabled" with no face,
\* an empty viewport and wireframe mode.
StateA ==
    [ DefaultState EXCEPT
        !.Program = "P1",
        !.BlendEnabled = TRUE, !.BlendSrc = "ONE", !.BlendDst = "ZERO",
        !.DepthEnabled = FALSE, !.DepthWrite = FALSE, !.DepthFunc = "ALWAYS",
        !.CullEnabled = TRUE, !.CullFace = CullNone,
        !.ViewportWidth = 0,
        !.WireframeMode = TRUE ]

\* A state with an invalid blend function and culling off.
StateB ==
    [ DefaultState EXCEPT
        !.Program = "P2",
        !.BlendEnabled = TRUE, !.BlendSrc = BlendZero, !.BlendDst = BlendZero,
        !.CullEnabled = FALSE, !.CullFace = "FRONT" ]

StateInputs == {DefaultState, StateA, StateB}

BlendArgs == { <<TRUE, "ONE", "ZERO">>, <<FALSE, "SRC_ALPHA", "ONE_MINUS_SRC_ALPHA">> }

DepthArgs == { <<FALSE, FALSE, "ALWAYS">>, <<TRUE, TRUE, "LESS">> }

CullArgs == { <<TRUE, "FRONT">>, <<TRUE, CullNone>>, <<FALSE, "BACK">> }

ViewportArgs == { <<0, 0, 800, 600>>, <<10, 10, 640, 480>> }

-----------------------------------------------------------------------------
(* History *)

NoErr == "nil"

NilStateErr == "state cannot be nil"

EmptyStackErr == "state stack is empty"

\* op: the operation; err: the error it returned; matched: (PopState) a
\* PushState was waiting for it; expect: (PopState) GetState() at that PushState.
\* dirty: (PopState) GetState() differed from expect when PopState was called;
\* arg: (SetState) the state argument; args: (setters) the arguments;
\* after: what the operation before it was, as far as the program cache goes.
OpAfter(name, err, after) ==
    [op |-> name, err |-> err, arg |-> NilState, args |-> << >>, matched |-> FALSE,
     expect |-> NilState, dirty |-> FALSE, after |-> after]

\* l, as the operation before the next one: SetProgram(nil), a successful
\* SetState of a State without a program, or another operation.
AfterOf(l) ==
    IF l.op = "SetProgram" /\ l.args = <<Nil>> THEN "SetProgram(nil)"
    ELSE IF l.op = "SetState" /\ l.err = NoErr /\ Deref(l.arg).Program = Nil
    THEN "SetState without program"
    ELSE "other"

Op(name, err) == OpAfter(name, err, AfterOf(last))

\* Every Pipeline operation counts as one step; it leaves the rest alone.
Step == nops < MaxOps /\ nops' = nops + 1 /\ UNCHANGED <<valVars, poolVars, extVars>>

-----------------------------------------------------------------------------
(* State.Validate *)

ViewportErr == "invalid viewport dimensions"

BlendErr == "invalid blend function: both source and destination are ZERO"

ValidateAcceptingEmpty(s) ==
    IF s.ViewportWidth < 0 \/ s.ViewportHeight < 0
    THEN ViewportErr
    ELSE IF s.BlendEnabled /\ s.BlendSrc = BlendZero /\ s.BlendDst = BlendZero
         THEN BlendErr
         ELSE NoErr

Validate(s) ==
    IF s.ViewportWidth <= 0 \/ s.ViewportHeight <= 0
    THEN ViewportErr
    ELSE IF s.BlendEnabled /\ s.BlendSrc = BlendZero /\ s.BlendDst = BlendZero
         THEN BlendErr
         ELSE NoErr

-----------------------------------------------------------------------------
(* Pipeline.SetState: the diff path *)

\* program: bound only if non-nil and its ID differs from the cached one
BindsAnyProgram(s) == s.Program # Nil

BindsProgram(s) == s.Program # Nil /\ lastProgramID # ProgID(s.Program)

ProgramCalls(s) ==
    IF BindsProgram(s) THEN << <<"UseProgram", ProgID(s.Program)>> >> ELSE << >>

GLAfterProgram(g, s) ==
    IF BindsProgram(s) THEN [g EXCEPT !.program = ProgID(s.Program)] ELSE g

\* blending
BlendCalls(s) ==
    IF lastBlendState # s.BlendEnabled
    THEN IF s.BlendEnabled
         THEN << <<"Enable", "BLEND">>, <<"BlendFunc", s.BlendSrc, s.BlendDst>> >>
         ELSE << <<"Disable", "BLEND">> >>
    ELSE IF s.BlendEnabled
         THEN << <<"BlendFunc", s.BlendSrc, s.BlendDst>> >>
         ELSE << >>

GLAfterBlendOnToggle(g, s) ==
    IF lastBlendState # s.BlendEnabled
    THEN IF s.BlendEnabled
         THEN [g EXCEPT !.blend = TRUE, !.blendSrc = s.BlendSrc, !.blendDst = s.BlendDst]
         ELSE [g EXCEPT !.blend = FALSE]
    ELSE g

GLAfterBlend(g, s) ==
    IF lastBlendState # s.BlendEnabled
    THEN IF s.BlendEnabled
         THEN [g EXCEPT !.blend = TRUE, !.blendSrc = s.BlendSrc, !.blendDst = s.BlendDst]
         ELSE [g EXCEPT !.blend = FALSE]
    ELSE IF s.BlendEnabled
         THEN [g EXCEPT !.blendSrc = s.BlendSrc, !.blendDst = s.BlendDst]
         ELSE g

\* depth test
DepthCalls(s) ==
    IF lastDepthState # s.DepthEnabled
    THEN IF s.DepthEnabled
         THEN << <<"Enable", "DEPTH_TEST">>, <<"DepthFunc", s.DepthFunc>>,
                 <<"DepthMask", s.DepthWrite>> >>
         ELSE << <<"Disable", "DEPTH_TEST">> >>
    ELSE IF s.DepthEnabled
         THEN << <<"DepthFunc", s.DepthFunc>>, <<"DepthMask", s.DepthWrite>> >>
         ELSE << >>

GLAfterDepth(g, s) ==
    IF lastDepthState # s.DepthEnabled
    THEN IF s.DepthEnabled
         THEN [g EXCEPT !.depthTest = TRUE, !.depthFunc = s.DepthFunc,
                        !.depthMask = s.DepthWrite]
         ELSE [g EXCEPT !.depthTest = FALSE]
    ELSE IF s.DepthEnabled
         THEN [g EXCEPT !.depthFunc = s.DepthFunc, !.depthMask = s.DepthWrite]
         ELSE g

\* culling
cullToggleChanged(s) == lastCullState # (s.CullEnabled /\ s.CullFace # CullNone)

cullStateChanged(s) == lastCullState # s.CullEnabled

CullCalls(s) ==
    IF cullStateChanged(s)
    THEN IF s.CullEnabled /\ s.CullFace # CullNone
         THEN << <<"Enable", "CULL_FACE">>, <<"CullFace", s.CullFace>> >>
         ELSE << <<"Disable", "CULL_FACE">> >>
    ELSE IF s.CullEnabled /\ s.CullFace # CullNone
         THEN << <<"CullFace", s.CullFace>> >>
         ELSE << >>

GLAfterCull(g, s) ==
    IF cullStateChanged(s)
    THEN IF s.CullEnabled /\ s.CullFace # CullNone
         THEN [g EXCEPT !.cull = TRUE, !.cullFace = s.CullFace]
         ELSE [g EXCEPT !.cull = FALSE]
    ELSE IF s.CullEnabled /\ s.CullFace # CullNone
         THEN [g EXCEPT !.cullFace = s.CullFace]
         ELSE g

\* viewport and polygon mode: always applied
PolygonModeOf(wireframe) == IF wireframe THEN "LINE" ELSE "FILL"

ViewportOf(s) == <<s.ViewportX, s.ViewportY, s.ViewportWidth, s.ViewportHeight>>

AlwaysCalls(s) ==
    << <<"Viewport", ViewportOf(s)>>,
       <<"PolygonMode", "FRONT_AND_BACK", PolygonModeOf(s.WireframeMode)>> >>

GLAfterAlways(g, s) ==
    [g EXCEPT !.viewport = ViewportOf(s), !.polygonMode = PolygonModeOf(s.WireframeMode)]

\* The body of SetState for a non-nil state whose contents are s. isCallers
\* tells whether the object is the caller's (SetState) or the popped copy
\* (PopState): p.currentState = state stores the pointer, not a copy.
ApplyState(s, isCallers) ==
    /\ lastProgramID' = IF BindsProgram(s) THEN ProgID(s.Program) ELSE lastProgramID
    /\ lastBlendState' = s.BlendEnabled
    /\ lastDepthState' = s.DepthEnabled
    /\ lastCullState' = s.CullEnabled
    /\ gl' = GLAfterAlways(GLAfterCull(GLAfterDepth(GLAfterBlend(
                 GLAfterProgram(gl, s), s), s), s), s)
    /\ calls' = ProgramCalls(s) \o BlendCalls(s) \o DepthCalls(s) \o CullCalls(s)
                  \o AlwaysCalls(s)
    /\ currentState' = s
    /\ callerAlias' = isCallers

StateRejectedOrInvalid(state) ==
    state = NilState \/ Validate(Deref(state)) # NoErr

\* if state == nil
StateRejected(state) == state = NilState

\* SetState(state): state is nil or points to a State the caller built.
SetState(state) ==
    /\ Step
    /\ IF StateRejected(state)
       THEN /\ calls' = << >>
            /\ last' = [Op("SetState", NilStateErr) EXCEPT !.arg = state]
            /\ UNCHANGED <<currentState, callerAlias, lastProgramID,
                           lastBlendState, lastDepthState, lastCullState, gl>>
       ELSE /\ ApplyState(Deref(state), TRUE)
            /\ last' = [Op("SetState", NoErr) EXCEPT !.arg = state]
    /\ UNCHANGED <<stateStack, pushed>>


\* GetState returns the pointer p.currentState; this is what it points to.
GetState == currentState

-----------------------------------------------------------------------------
(* Pipeline.PushState / Pipeline.PopState *)

\* stateCopy := *p.currentState
StateCopy(s) == s

PushState ==
    /\ Step
    /\ Len(stateStack) < MaxStack
    /\ stateStack' = Append(stateStack, StateCopy(currentState))
    /\ pushed' = Append(pushed, GetState)
    /\ calls' = << >>
    /\ last' = Op("PushState", NoErr)
    /\ UNCHANGED <<currentState, callerAlias, lastProgramID, lastBlendState,
                   lastDepthState, lastCullState, gl>>

lastIndexOldest == IF Len(stateStack) > 0 THEN 1 ELSE 0

\* lastIndex := len(p.stateStack) - 1   (sequences here start at 1)
lastIndex == Len(stateStack)

PopHistory(err) ==
    [ op |-> "PopState", err |-> err, arg |-> NilState, args |-> << >>,
      matched |-> Len(pushed) > 0,
      expect |-> IF Len(pushed) > 0 THEN Ref(pushed[Len(pushed)]) ELSE NilState,
      dirty |-> Len(pushed) > 0 /\ GetState # pushed[Len(pushed)],
      after |-> AfterOf(last) ]

PopEmptyAppliesDefault ==
    /\ ApplyState(DefaultState, FALSE)
    /\ last' = PopHistory(EmptyStackErr)
    /\ UNCHANGED <<stateStack, pushed>>

\* if len(p.stateStack) == 0: the error return
PopEmpty ==
    /\ calls' = << >>
    /\ last' = PopHistory(EmptyStackErr)
    /\ UNCHANGED <<currentState, callerAlias, stateStack, lastProgramID,
                   lastBlendState, lastDepthState, lastCullState, gl, pushed>>

PopState ==
    /\ Step
    /\ IF Len(stateStack) = 0
       THEN PopEmpty
       ELSE /\ stateStack' = SubSeq(stateStack, 1, lastIndex - 1)
            /\ ApplyState(stateStack[lastIndex], FALSE)
            /\ last' = PopHistory(NoErr)
            /\ pushed' = SubSeq(pushed, 1, Len(pushed) - 1)

-----------------------------------------------------------------------------
(* The fine-grained setters: they write the current State object in place *)
(* and call the driver; none of them touches the diff cache.              *)

Setter(name, args) ==
    /\ Step
    /\ last' = [Op(name, NoErr) EXCEPT !.args = args]
    /\ UNCHANGED <<callerAlias, stateStack, pushed>>

SetProgramKeepingCache(program) ==
    /\ Setter("SetProgram", <<program>>)
    /\ IF program # Nil /\ lastProgramID # ProgID(program)
       THEN /\ currentState' = [currentState EXCEPT !.Program = program]
            /\ gl' = [gl EXCEPT !.program = ProgID(program)]
            /\ calls' = << <<"UseProgram", ProgID(program)>> >>
            /\ lastProgramID' = ProgID(program)
       ELSE IF program = Nil /\ lastProgramID # 0
       THEN /\ currentState' = [currentState EXCEPT !.Program = Nil]
            /\ calls' = << >>
            /\ UNCHANGED <<gl, lastProgramID>>
       ELSE /\ calls' = << >>
            /\ UNCHANGED <<currentState, lastProgramID, gl>>
    /\ UNCHANGED <<lastBlendState, lastDepthState, lastCullState>>

\* program is Nil or one of Programs
SetProgram(program) ==
    /\ Setter("SetProgram", <<program>>)
    /\ IF program # Nil /\ lastProgramID # ProgID(program)
       THEN /\ currentState' = [currentState EXCEPT !.Program = program]
            /\ gl' = [gl EXCEPT !.program = ProgID(program)]
            /\ calls' = << <<"UseProgram", ProgID(program)>> >>
            /\ lastProgramID' = ProgID(program)
       ELSE IF program = Nil /\ lastProgramID # 0
       THEN /\ currentState' = [currentState EXCEPT !.Program = Nil]
            /\ lastProgramID' = 0
            /\ calls' = << >>
            /\ UNCHANGED gl
       ELSE /\ calls' = << >>
            /\ UNCHANGED <<currentState, lastProgramID, gl>>
    /\ UNCHANGED <<lastBlendState, lastDepthState, lastCullState>>

SetBlendingKeepingFactors(enabled, src, dst) ==
    /\ Setter("SetBlending", <<enabled, src, dst>>)
    /\ IF enabled
       THEN /\ currentState' = [currentState EXCEPT !.BlendEnabled = enabled,
                                                    !.BlendSrc = src, !.BlendDst = dst]
            /\ gl' = [gl EXCEPT !.blend = TRUE, !.blendSrc = src, !.blendDst = dst]
            /\ calls' = << <<"Enable", "BLEND">>, <<"BlendFunc", src, dst>> >>
       ELSE /\ currentState' = [currentState EXCEPT !.BlendEnabled = enabled]
            /\ gl' = [gl EXCEPT !.blend = FALSE]
            /\ calls' = << <<"Disable", "BLEND">> >>
    /\ UNCHANGED <<lastProgramID, lastBlendState, lastDepthState, lastCullState>>

SetBlending(enabled, src, dst) ==
    /\ Setter("SetBlending", <<enabled, src, dst>>)
    /\ currentState' = [currentState EXCEPT !.BlendEnabled = enabled,
                                            !.BlendSrc = src, !.BlendDst = dst]
    /\ IF enabled
       THEN /\ gl' = [gl EXCEPT !.blend = TRUE, !.blendSrc = src, !.blendDst = dst]
            /\ calls' = << <<"Enable", "BLEND">>, <<"BlendFunc", src, dst>> >>
       ELSE /\ gl' = [gl EXCEPT !.blend = FALSE]
            /\ calls' = << <<"Disable", "BLEND">> >>
    /\ UNCHANGED <<lastProgramID, lastBlendState, lastDepthState, lastCullState>>

SetDepthTest(enabled, write, fn) ==
    /\ Setter("SetDepthTest", <<enabled, write, fn>>)
    /\ currentState' = [currentState EXCEPT !.DepthEnabled = enabled,
                                            !.DepthWrite = write, !.DepthFunc = fn]
    /\ IF enabled
       THEN /\ gl' = [gl EXCEPT !.depthTest = TRUE, !.depthFunc = fn, !.depthMask = write]
            /\ calls' = << <<"Enable", "DEPTH_TEST">>, <<"DepthFunc", fn>>,
                           <<"DepthMask", write>> >>
       ELSE /\ gl' = [gl EXCEPT !.depthTest = FALSE]
            /\ calls' = << <<"Disable", "DEPTH_TEST">> >>
    /\ UNCHANGED <<lastProgramID, lastBlendState, lastDepthState, lastCullState>>

SetCulling(enabled, face) ==
    /\ Setter("SetCulling", <<enabled, face>>)
    /\ currentState' = [currentState EXCEPT !.CullEnabled = enabled, !.CullFace = face]
    /\ IF enabled /\ face # CullNone
       THEN /\ gl' = [gl EXCEPT !.cull = TRUE, !.cullFace = face]
            /\ calls' = << <<"Enable", "CULL_FACE">>, <<"CullFace", face>> >>
       ELSE /\ gl' = [gl EXCEPT !.cull = FALSE]
            /\ calls' = << <<"Disable", "CULL_FACE">> >>
    /\ UNCHANGED <<lastProgramID, lastBlendState, lastDepthState, lastCullState>>

SetViewport(x, y, width, height) ==
    /\ Setter("SetViewport", <<x, y, width, height>>)
    /\ currentState' = [currentState EXCEPT !.ViewportX = x, !.ViewportY = y,
                                            !.ViewportWidth = width,
                                            !.ViewportHeight = height]
    /\ gl' = [gl EXCEPT !.viewport = <<x, y, width, height>>]
    /\ calls' = << <<"Viewport", <<x, y, width, height>> >> >>
    /\ UNCHANGED <<lastProgramID, lastBlendState, lastDepthState, lastCullState>>

SetWireframe(enabled) ==
    /\ Setter("SetWireframe", <<enabled>>)
    /\ currentState' = [currentState EXCEPT !.WireframeMode = enabled]
    /\ gl' = [gl EXCEPT !.polygonMode = PolygonModeOf(enabled)]
    /\ calls' = << <<"PolygonMode", "FRONT_AND_BACK", PolygonModeOf(enabled)>> >>
    /\ UNCHANGED <<lastProgramID, lastBlendState, lastDepthState, lastCullState>>

-----------------------------------------------------------------------------
(* The caller and the State object handed to SetState *)

\* The fields of the State object s the caller handed to the last successful
\* SetState, while the Pipeline points to it (callerAlias): p.currentState = state
\* stores the pointer, so s and the object GetState() returns are one object.
CallersState == currentState

\* s.field = value, by the caller, on that object.
CallerWrites(field, value) ==
    /\ Step
    /\ callerAlias
    /\ currentState' = [currentState EXCEPT ![field] = value]
    /\ calls' = << >>
    /\ last' = [Op("caller writes", NoErr) EXCEPT !.args = <<field, value>>]
    /\ UNCHANGED <<callerAlias, stateStack, pushed, lastProgramID, lastBlendState,
                   lastDepthState, lastCullState, gl>>

-----------------------------------------------------------------------------
(* package resource: Buffer and BufferPool *)

\* A nil *Buffer; Buffer objects are numbered from 1.
NilBuf == 0

Targets == {"ARRAY_BUFFER", "ELEMENT_ARRAY_BUFFER"}

Usages == {"STATIC_DRAW", "DYNAMIC_DRAW"}

\* The sizes callers ask for.
Sizes == {512, 1024}

GenBuffersErr == "failed to generate buffer"

\* gl.GenBuffers(1, &id): an unused name, or 0 when the context cannot
\* allocate one.
GenBuffers == {0, CHOOSE n \in 1..MaxBufs + 1 :
                      n \notin glBuffers /\ \A m \in 1..n - 1 : m \in glBuffers}

CreateCalls(id, target, size, usage) ==
    << <<"GenBuffers", id>>, <<"BindBuffer", target, id>>,
       <<"BufferData", target, size, usage>>, <<"BindBuffer", target, 0>> >>

\* p.inUseBuffers[id] = buf  and  delete(p.inUseBuffers, id)
MapPut(m, id, buf) == [k \in DOMAIN m \cup {id} |-> IF k = id THEN buf ELSE m[k]]

MapDelete(m, id) == [k \in DOMAIN m \ {id} |-> m[k]]

\* append(buffers[:i], buffers[i+1:]...)
KeepAll(s, i) == s

RemoveAt(s, i) == SubSeq(s, 1, i - 1) \o SubSeq(s, i + 1, Len(s))

FitsIfLarger(buf, size, usage) == buf.Size > size /\ buf.Usage = usage

FitsExactly(buf, size, usage) == buf.Size = size /\ buf.Usage = usage

\* buf.Size >= size && buf.Usage == usage
Fits(buf, size, usage) == buf.Size >= size /\ buf.Usage = usage

\* Every pool operation counts as one step; it leaves the rest alone.
PoolStep ==
    nops < MaxPoolOps /\ nops' = nops + 1 /\ UNCHANGED <<pipeState, valVars, extVars>>

\* op: the operation; buf: (Release) its argument; target, size, usage:
\* (Acquire) its arguments; ret, err: what it returned; reused: ret came from
\* the available list; after, afterBuf: the operation before it, and its buf.
PoolOp(name) ==
    [op |-> name, err |-> NoErr, ret |-> NilBuf, buf |-> NilBuf, reused |-> FALSE,
     target |-> "", size |-> 0, usage |-> "",
     after |-> poolLast.op, afterBuf |-> poolLast.buf]

AcquireOp(target, size, usage, ret, reused, err) ==
    [PoolOp("Acquire") EXCEPT !.target = target, !.size = size, !.usage = usage,
                              !.ret = ret, !.reused = reused, !.err = err]

\* The positions of the available buffers of target that fit the request.
Hits(target, size, usage) ==
    { i \in 1..Len(availableBuffers[target]) :
        Fits(buffers[availableBuffers[target][i]], size, usage) }

\* Acquire, a buffer of the available list fits: the first one is taken.
AcquireReuse(target, size, usage) ==
    LET bufs == availableBuffers[target]
        i == CHOOSE h \in Hits(target, size, usage) :
                 \A k \in Hits(target, size, usage) : h <= k
        buf == bufs[i]
    IN  /\ Hits(target, size, usage) # {}
        /\ availableBuffers' = [availableBuffers EXCEPT ![target] = RemoveAt(bufs, i)]
        /\ inUseBuffers' = MapPut(inUseBuffers, buffers[buf].ID, buf)
        /\ poolCalls' = << >>
        /\ poolLast' = AcquireOp(target, size, usage, buf, TRUE, NoErr)
        /\ held' = held \cup {buf}
        /\ UNCHANGED <<buffers, glBuffers, disciplined>>

\* Acquire, none fits: createBuffer(target, nil, size, usage), which got id.
AcquireNew(target, size, usage, id) ==
    /\ Hits(target, size, usage) = {}
    /\ Len(buffers) < MaxPoolBufs
    /\ IF id = 0
       THEN /\ poolCalls' = << <<"GenBuffers", id>> >>
            /\ poolLast' = AcquireOp(target, size, usage, NilBuf, FALSE, GenBuffersErr)
            /\ UNCHANGED <<buffers, inUseBuffers, glBuffers, held>>
       ELSE /\ buffers' = Append(buffers, [ID |-> id, Target |-> target,
                                           Size |-> size, Usage |-> usage])
            /\ glBuffers' = glBuffers \cup {id}
            /\ inUseBuffers' = MapPut(inUseBuffers, id, Len(buffers) + 1)
            /\ poolCalls' = CreateCalls(id, target, size, usage)
            /\ poolLast' = AcquireOp(target, size, usage, Len(buffers) + 1, FALSE, NoErr)
            /\ held' = held \cup {Len(buffers) + 1}
    /\ UNCHANGED <<availableBuffers, disciplined>>

Acquire(target, size, usage) ==
    /\ \/ AcquireReuse(target, size, usage)
       \/ \E id \in GenBuffers : AcquireNew(target, size, usage, id)
    /\ PoolStep

\* Release(buffer): buffer is NilBuf or any Buffer object created so far.
Release(buffer) ==
    /\ poolLast' = [PoolOp("Release") EXCEPT !.buf = buffer]
    /\ poolCalls' = << >>
    /\ IF buffer = NilBuf
       THEN UNCHANGED <<availableBuffers, inUseBuffers, held, disciplined>>
       ELSE /\ held' = held \ {buffer}
            /\ disciplined' = (disciplined /\ buffer \in held)
            /\ IF buffers[buffer].ID = 0
               THEN UNCHANGED <<availableBuffers, inUseBuffers>>
               ELSE /\ inUseBuffers' = MapDelete(inUseBuffers, buffers[buffer].ID)
                    /\ availableBuffers' =
                         [availableBuffers EXCEPT ![buffers[buffer].Target] =
                              Append(@, buffer)]
    /\ UNCHANGED <<buffers, glBuffers>>
    /\ PoolStep

\* Buffer.Delete on object b; st holds the Buffer objects, the driver's live
\* names and the driver calls so far.
BufferDeleteKeepingID(st, b) ==
    IF st.bufs[b].ID # 0
    THEN [ bufs  |-> st.bufs,
           names |-> st.names \ {st.bufs[b].ID},
           log   |-> Append(st.log, <<"DeleteBuffers", st.bufs[b].ID>>) ]
    ELSE st

BufferDelete(st, b) ==
    IF st.bufs[b].ID # 0
    THEN [ bufs  |-> [st.bufs EXCEPT ![b].ID = 0],
           names |-> st.names \ {st.bufs[b].ID},
           log   |-> Append(st.log, <<"DeleteBuffers", st.bufs[b].ID>>) ]
    ELSE st

\* for _, buf := range seq { buf.Delete() }
RECURSIVE DeleteAll(_, _)
DeleteAll(st, seq) ==
    IF seq = << >> THEN st ELSE DeleteAll(BufferDelete(st, Head(seq)), Tail(seq))

RECURSIVE Flatten(_)
Flatten(seqs) == IF seqs = << >> THEN << >> ELSE Head(seqs) \o Flatten(Tail(seqs))

\* The Buffer objects in the available lists or in the in-use map.
PoolMembers ==
    UNION { {availableBuffers[t][i] : i \in 1..Len(availableBuffers[t])} : t \in Targets }
      \cup { inUseBuffers[id] : id \in DOMAIN inUseBuffers }

\* The elements of a set of numbers, ascending.
RECURSIVE Ascending(_)
Ascending(S) ==
    IF S = {} THEN << >>
    ELSE LET n == CHOOSE x \in S : \A y \in S : x <= y
         IN  <<n>> \o Ascending(S \ {n})

\* The order in which Clear visits the available buffers and the in-use ones.
\* A range over a map visits the keys in an order the language leaves open;
\* here the targets come in the order of TargetOrder and the in-use names
\* ascending. Delete acts on one Buffer object alone, an object is listed
\* under one target only and the in-use map holds it under one name only, so
\* the order decides nothing but the order of the driver calls.
TargetOrder == <<"ARRAY_BUFFER", "ELEMENT_ARRAY_BUFFER">>

AvailableVisit == Flatten([i \in DOMAIN TargetOrder |-> availableBuffers[TargetOrder[i]]])

InUseVisit ==
    LET names == Ascending(DOMAIN inUseBuffers)
    IN  [i \in DOMAIN names |-> inUseBuffers[names[i]]]

Clear ==
    /\ PoolStep
    /\ LET st == DeleteAll(DeleteAll([bufs |-> buffers, names |-> glBuffers,
                                      log |-> << >>], AvailableVisit), InUseVisit)
       IN  /\ buffers' = st.bufs
           /\ glBuffers' = st.names
           /\ poolCalls' = st.log
    /\ availableBuffers' = [t \in Targets |-> << >>]
    /\ inUseBuffers' = << >>
    /\ poolLast' = PoolOp("Clear")
    /\ UNCHANGED <<held, disciplined>>

NewBufferPool ==
    /\ buffers = << >>
    /\ availableBuffers = [t \in Targets |-> << >>]
    /\ inUseBuffers = << >>
    /\ glBuffers = {}
    /\ poolCalls = << >>
    /\ poolLast = [op |-> "NewBufferPool", err |-> NoErr, ret |-> NilBuf,
                   buf |-> NilBuf, reused |-> FALSE, target |-> "", size |-> 0,
                   usage |-> "", after |-> "", afterBuf |-> NilBuf]
    /\ held = {}
    /\ disciplined = TRUE

-----------------------------------------------------------------------------
(* package pipeline: Builder *)

\* state: the State object b.state points to, which Build returns; op: the
\* last call; withs: the With* calls made so far.
NewBuilder == builder = [state |-> DefaultState, op |-> "NewBuilder", withs |-> 0]

\* Every With* call writes its fields of b.state and returns the builder.
With(name, state) ==
    /\ builder.withs < MaxWiths
    /\ builder' = [state |-> state, op |-> name, withs |-> builder.withs + 1]
    /\ UNCHANGED <<pipeVars, valVars, poolVars, layoutVars, resVars>>

WithProgram(program) ==
    With("WithProgram", [builder.state EXCEPT !.Program = program])

WithBlending(enabled, src, dst) ==
    With("WithBlending", [builder.state EXCEPT !.BlendEnabled = enabled,
                                               !.BlendSrc = src, !.BlendDst = dst])

WithDepthTest(enabled, write, fn) ==
    With("WithDepthTest", [builder.state EXCEPT !.DepthEnabled = enabled,
                                                !.DepthWrite = write, !.DepthFunc = fn])

WithCulling(enabled, face) ==
    With("WithCulling", [builder.state EXCEPT !.CullEnabled = enabled,
                                              !.CullFace = face])

WithViewport(x, y, width, height) ==
    With("WithViewport", [builder.state EXCEPT !.ViewportX = x, !.ViewportY = y,
                                               !.ViewportWidth = width,
                                               !.ViewportHeight = height])

WithWireframe(enabled) ==
    With("WithWireframe", [builder.state EXCEPT !.WireframeMode = enabled])

WithPrimitive(primitive) ==
    With("WithPrimitive", [builder.state EXCEPT !.Primitive = primitive])

\* Build returns b.state, the object itself.
Build ==
    /\ builder.op # "Build"
    /\ builder' = [builder EXCEPT !.op = "Build"]
    /\ UNCHANGED <<pipeVars, valVars, poolVars, layoutVars, resVars>>

-----------------------------------------------------------------------------
(* package resource: VertexLayout *)

\* A *VertexLayout: the nil pointer, or a pointer to a layout holding vl.
NilLayout == << >>

\* AttributeType
Float == "FLOAT"

IntType == "INT"

UByte == "UNSIGNED_BYTE"

\* uintptr(x) for an int32 x: x itself when x is not negative, 2^64 + x
\* (written as a pair) when it is.
Uintptr(x) == IF x >= 0 THEN x ELSE <<"2^64 +", x>>

\* NewVertexLayout(): what the new layout holds.
NewVertexLayout == [Attributes |-> << >>, Stride |-> 0]

VertexAttribute(location, count, type, normalized, offset) ==
    [ Location |-> location, Size |-> count, Type |-> type,
      Normalized |-> normalized, Stride |-> 0, Offset |-> offset, Divisor |-> 0 ]

AddFloatPacked(vl, location, count) ==
    [ Attributes |-> Append(vl.Attributes,
                       VertexAttribute(location, count, Float, FALSE, Uintptr(vl.Stride))),
      Stride |-> vl.Stride + count ]

\* vl.AddFloat(location, count): the layout afterwards (Stride is an int32;
\* no sum taken here leaves its range).
AddFloat(vl, location, count) ==
    [ Attributes |-> Append(vl.Attributes,
                       VertexAttribute(location, count, Float, FALSE, Uintptr(vl.Stride))),
      Stride |-> vl.Stride + count * 4 ]

AddInt(vl, location, count) ==
    [ Attributes |-> Append(vl.Attributes,
                       VertexAttribute(location, count, IntType, FALSE, Uintptr(vl.Stride))),
      Stride |-> vl.Stride + count * 4 ]

AddUByte(vl, location, count, normalized) ==
    [ Attributes |-> Append(vl.Attributes,
                       VertexAttribute(location, count, UByte, normalized,
                                       Uintptr(vl.Stride))),
      Stride |-> vl.Stride + count ]

StampNothing(vl) == vl

\* for i := range vl.Attributes { vl.Attributes[i].Stride = vl.Stride }
StampStride(vl) ==
    [vl EXCEPT !.Attributes = [i \in DOMAIN @ |-> [@[i] EXCEPT !.Stride = vl.Stride]]]

-----------------------------------------------------------------------------
(* package resource: buffers, vertex arrays and meshes outside the pool *)

\* A slice: nil, or holding the elements elems.
NilSlice == [nil |-> TRUE, elems |-> << >>]

Slice(elems) == [nil |-> FALSE, elems |-> elems]

\* len(s)
len(s) == Len(s.elems)

\* A nil *VertexArray, *IndexBuffer or *Mesh; objects are numbered from 1.
NilObj == 0

\* The resource objects, the driver's live names, the driver calls issued so
\* far in this operation, and the result (object, error) of the last call.
World ==
    [ bufs |-> buffers, names |-> glBuffers, ibos |-> indexBuffers,
      vaos |-> vertexArrays, vaoNames |-> glVertexArrays,
      meshes |-> meshes, dels |-> driverDeletes, log |-> << >>, ret |-> NilObj, err |-> NoErr ]

\* gl.GenBuffers(1, &id) / gl.GenVertexArrays(1, &id): the least name not in
\* use when the driver can allocate one, 0 when it cannot.
GenName(names, ok) ==
    IF ok
    THEN CHOOSE n \in 1..Cardinality(names) + 1 :
             n \notin names /\ \A m \in 1..n - 1 : m \in names
    ELSE 0

\* createBuffer(target, data, size, usage) where GenBuffers gave id
createBuffer(w, target, size, usage, id) ==
    IF id = 0
    THEN [w EXCEPT !.log = Append(@, <<"GenBuffers", id>>),
                   !.ret = NilObj, !.err = GenBuffersErr]
    ELSE [w EXCEPT !.bufs = Append(@, [ID |-> id, Target |-> target,
                                       Size |-> size, Usage |-> usage]),
                   !.names = @ \cup {id},
                   !.dels.Buffer = [k \in 1..Len(w.bufs) + 1 |->
                                       IF k \in DOMAIN @ THEN @[k] ELSE 0],
                   !.log = @ \o CreateCalls(id, target, size, usage),
                   !.ret = Len(w.bufs) + 1, !.err = NoErr]

\* NewVertexBuffer(data, usage): a *VertexBuffer holds nothing but its
\* *Buffer, and is identified with it.
NewVertexBuffer(w, data, usage, id) ==
    createBuffer(w, "ARRAY_BUFFER", len(data) * 4, usage, id)

\* NewIndexBuffer(data, usage)
NewIndexBuffer(w, data, usage, id) ==
    LET c == createBuffer(w, "ELEMENT_ARRAY_BUFFER", len(data) * 4, usage, id)
    IN  IF c.err # NoErr THEN c
        ELSE [c EXCEPT !.ibos = Append(@, [Buffer |-> c.ret, Count |-> len(data),
                                           IndexType |-> "UNSIGNED_INT"]),
                       !.ret = Len(c.ibos) + 1]

\* NewIndexBuffer16(data, usage)
NewIndexBuffer16(w, data, usage, id) ==
    LET c == createBuffer(w, "ELEMENT_ARRAY_BUFFER", len(data) * 2, usage, id)
    IN  IF c.err # NoErr THEN c
        ELSE [c EXCEPT !.ibos = Append(@, [Buffer |-> c.ret, Count |-> len(data),
                                           IndexType |-> "UNSIGNED_SHORT"]),
                       !.ret = Len(c.ibos) + 1]

VertexArrayErr == "failed to generate vertex array"

\* NewVertexArray() where GenVertexArrays gave id
NewVertexArray(w, id) ==
    IF id = 0
    THEN [w EXCEPT !.log = Append(@, <<"GenVertexArrays", id>>),
                   !.ret = NilObj, !.err = VertexArrayErr]
    ELSE [w EXCEPT !.vaos = Append(@, [ID |-> id, Attributes |-> << >>,
                                       VBO |-> NilBuf, IBO |-> NilObj]),
                   !.vaoNames = @ \cup {id},
                   !.dels.VertexArray = Append(@, 0),
                   !.log = Append(@, <<"GenVertexArrays", id>>),
                   !.ret = Len(w.vaos) + 1, !.err = NoErr]

\* va.SetVertexBuffer(vbo)
SetVertexBuffer(w, va, vbo) ==
    [w EXCEPT !.vaos[va].VBO = vbo,
              !.log = @ \o << <<"BindVertexArray", w.vaos[va].ID>>,
                              <<"BindBuffer", w.bufs[vbo].Target, w.bufs[vbo].ID>>,
                              <<"BindVertexArray", 0>> >>]

\* va.SetIndexBuffer(ibo)
SetIndexBuffer(w, va, ibo) ==
    LET b == w.ibos[ibo].Buffer
    IN  [w EXCEPT !.vaos[va].IBO = ibo,
                  !.log = @ \o << <<"BindVertexArray", w.vaos[va].ID>>,
                                  <<"BindBuffer", w.bufs[b].Target, w.bufs[b].ID>>,
                                  <<"BindVertexArray", 0>> >>]

\* va.AddAttribute(attr)
AddAttribute(w, va, attr) ==
    LET vbo == w.vaos[va].VBO
        bind == IF vbo # NilBuf
                THEN << <<"BindBuffer", w.bufs[vbo].Target, w.bufs[vbo].ID>> >>
                ELSE << >>
        pointer == IF attr.Type = Float
                   THEN << <<"VertexAttribPointer", attr.Location, attr.Size,
                             attr.Type, attr.Normalized, attr.Stride, attr.Offset>> >>
                   ELSE << <<"VertexAttribIPointer", attr.Location, attr.Size,
                             attr.Type, attr.Stride, attr.Offset>> >>
        divisor == IF attr.Divisor > 0
                   THEN << <<"VertexAttribDivisor", attr.Location, attr.Divisor>> >>
                   ELSE << >>
    IN  [w EXCEPT !.vaos[va].Attributes = Append(@, attr),
                  !.log = @ \o << <<"BindVertexArray", w.vaos[va].ID>> >> \o bind
                            \o << <<"EnableVertexAttribArray", attr.Location>> >>
                            \o pointer \o divisor
                            \o << <<"BindVertexArray", 0>> >>]

\* for _, attr := range attrs { va.AddAttribute(attr) }
RECURSIVE AddAttributes(_, _, _)
AddAttributes(w, va, attrs) ==
    IF attrs = << >> THEN w
    ELSE AddAttributes(AddAttribute(w, va, Head(attrs)), va, Tail(attrs))

\* vl.Apply(va): what it does to va and the driver
Apply(w, vl, va) == AddAttributes(w, va, StampStride(vl).Attributes)

DeleteOfBufferForgotten(w, b) == w

\* b.Delete() on Buffer object b
DeleteOfBuffer(w, b) ==
    LET st == BufferDelete([bufs |-> w.bufs, names |-> w.names, log |-> w.log], b)
    IN  [w EXCEPT !.bufs = st.bufs, !.names = st.names, !.log = st.log,
                  !.dels.Buffer[b] = @ + (Len(st.log) - Len(w.log))]

\* VertexArray.Delete, the guarded part: disable the attributes, delete the
\* array, zero the ID.
VertexArrayDeleted(w, va) ==
    [w EXCEPT !.vaos[va].ID = 0,
              !.vaoNames = @ \ {w.vaos[va].ID},
              !.dels.VertexArray[va] = @ + 1,
              !.log = @ \o << <<"BindVertexArray", w.vaos[va].ID>> >>
                        \o [i \in DOMAIN w.vaos[va].Attributes |->
                              <<"DisableVertexAttribArray",
                                w.vaos[va].Attributes[i].Location>>]
                        \o << <<"BindVertexArray", 0>>,
                              <<"DeleteVertexArrays", w.vaos[va].ID>> >>]

VertexArrayDeleteUnguarded(w, va) == VertexArrayDeleted(w, va)

VertexArrayDeleteCascading(w, va) ==
    LET d == IF w.vaos[va].ID # 0 THEN VertexArrayDeleted(w, va) ELSE w
        v == IF w.vaos[va].VBO # NilBuf THEN DeleteOfBuffer(d, w.vaos[va].VBO) ELSE d
    IN  IF w.vaos[va].IBO # NilObj
        THEN DeleteOfBuffer(v, w.ibos[w.vaos[va].IBO].Buffer)
        ELSE v

\* va.Delete()
VertexArrayDelete(w, va) ==
    IF w.vaos[va].ID # 0 THEN VertexArrayDeleted(w, va) ELSE w

\* m.Delete() where m holds VAO, VBO and IBO
MeshDelete(w, m) ==
    LET a == IF m.VAO # NilObj THEN VertexArrayDelete(w, m.VAO) ELSE w
        b == IF m.VBO # NilBuf THEN DeleteOfBuffer(a, m.VBO) ELSE a
    IN  IF m.IBO # NilObj THEN DeleteOfBuffer(b, b.ibos[m.IBO].Buffer) ELSE b

VertexBufferErr == "failed to create vertex buffer: failed to generate buffer"

IndexBufferErr == "failed to create index buffer: failed to generate buffer"

MeshVertexArrayErr == "failed to create vertex array: failed to generate vertex array"

Failed(w, err) == [w EXCEPT !.ret = NilObj, !.err = err]

HasIndicesUnlessNil(indices) == ~indices.nil

\* if len(indices) > 0
HasIndices(indices) == len(indices) > 0

\* NewMesh(vertices, indices, layout); okVBO, okIBO, okVAO tell whether the
\* driver can allocate the name each constructor asks for.
NewMeshIn(w, vertices, indices, layoutPtr, okVBO, okIBO, okVAO) ==
    LET v == NewVertexBuffer(w, vertices, "STATIC_DRAW", GenName(w.names, okVBO))
        vbo == v.ret
        i == IF HasIndices(indices)
             THEN NewIndexBuffer(v, indices, "STATIC_DRAW", GenName(v.names, okIBO))
             ELSE [v EXCEPT !.ret = NilObj]
        ibo == i.ret
        a == NewVertexArray(i, GenName(i.vaoNames, okVAO))
        vao == a.ret
        s1 == SetVertexBuffer(a, vao, vbo)
        s2 == IF ibo # NilObj THEN SetIndexBuffer(s1, vao, ibo) ELSE s1
        s3 == IF layoutPtr # NilLayout THEN Apply(s2, Deref(layoutPtr), vao) ELSE s2
    IN  IF v.err # NoErr THEN Failed(v, VertexBufferErr)
        ELSE IF i.err # NoErr THEN Failed(DeleteOfBuffer(i, vbo), IndexBufferErr)
        ELSE IF a.err # NoErr
        THEN LET d == DeleteOfBuffer(a, vbo)
             IN  Failed(IF ibo # NilObj THEN DeleteOfBuffer(d, d.ibos[ibo].Buffer) ELSE d,
                        MeshVertexArrayErr)
        ELSE [s3 EXCEPT !.meshes = Append(@, [VAO |-> vao, VBO |-> vbo, IBO |-> ibo]),
                        !.ret = Len(s3.meshes) + 1]

-----------------------------------------------------------------------------
(* Buffer.Update *)

\* Go's int, on a build where it has 32 bits.
MaxInt == 2147483647

MinInt == -MaxInt - 1

\* a + b in Go's int: a sum outside MinInt..MaxInt wraps around.
IntSum(a, b) ==
    IF b > 0 /\ a > MaxInt - b THEN (a - MaxInt - 1) + (b - MaxInt - 1)
    ELSE IF b < 0 /\ a < MinInt - b THEN (a + MaxInt + 1) + (b + MaxInt + 1)
    ELSE a + b

RangeErr == "data exceeds buffer size"

\* if offset+size > b.Size
UpdateRejected(buf, offset, size) == IntSum(offset, size) > buf.Size

\* b.Bind(); gl.BufferSubData(target, offset, size, data); b.Unbind()
UpdateCalls(buf, offset, size) ==
    << <<"BindBuffer", buf.Target, buf.ID>>,
       <<"BufferSubData", buf.Target, offset, size>>,
       <<"BindBuffer", buf.Target, 0>> >>

-----------------------------------------------------------------------------
(* The resource operations *)

\* Every resource operation counts as one step; it leaves the rest alone.
ResStep ==
    /\ nops < MaxResOps /\ nops' = nops + 1
    /\ UNCHANGED <<pipeState, valVars, builderVars, layoutVars, availableBuffers,
                   inUseBuffers, poolCalls, poolLast, held, disciplined>>

\* op: the operation; obj: the object it was called on; ret, err: what it
\* returned; offset, size: (Update) its arguments; indices: (NewMesh) its
\* index argument.
ResOp(name, obj) ==
    [op |-> name, obj |-> obj, ret |-> NilObj, err |-> NoErr, offset |-> 0,
     size |-> 0, indices |-> NilSlice]

\* The objects, names and driver calls an operation leaves behind.
Commit(w) ==
    /\ buffers' = w.bufs
    /\ glBuffers' = w.names
    /\ indexBuffers' = w.ibos
    /\ vertexArrays' = w.vaos
    /\ glVertexArrays' = w.vaoNames
    /\ meshes' = w.meshes
    /\ driverDeletes' = w.dels
    /\ resCalls' = w.log

NewMesh(vertices, indices, layoutPtr) ==
    /\ ResStep
    /\ Len(buffers) + (IF len(indices) > 0 THEN 2 ELSE 1) <= MaxBufs
    /\ Len(vertexArrays) < MaxVAOs
    /\ \E okVBO, okIBO, okVAO \in BOOLEAN :
          LET w == NewMeshIn(World, vertices, indices, layoutPtr, okVBO, okIBO, okVAO)
          IN  /\ Commit(w)
              /\ resLast' = [ResOp("NewMesh", NilObj) EXCEPT
                                !.ret = w.ret, !.err = w.err, !.indices = indices]

\* m.Delete() on Mesh object m
DeleteMesh(m) ==
    /\ ResStep
    /\ Commit(MeshDelete(World, meshes[m]))
    /\ resLast' = ResOp("Mesh.Delete", m)

\* va.Delete() on VertexArray object va
DeleteVertexArray(va) ==
    /\ ResStep
    /\ Commit(VertexArrayDelete(World, va))
    /\ resLast' = ResOp("VertexArray.Delete", va)

\* b.Delete() on Buffer object b
DeleteBuffer(b) ==
    /\ ResStep
    /\ Commit(DeleteOfBuffer(World, b))
    /\ resLast' = ResOp("Buffer.Delete", b)

\* b.Update(offset, data, size) on Buffer object b
Update(b, offset, size) ==
    /\ ResStep
    /\ IF UpdateRejected(buffers[b], offset, size)
       THEN /\ resCalls' = << >>
            /\ resLast' = [ResOp("Update", b) EXCEPT !.err = RangeErr,
                                                     !.offset = offset, !.size = size]
       ELSE /\ resCalls' = UpdateCalls(buffers[b], offset, size)
            /\ resLast' = [ResOp("Update", b) EXCEPT !.offset = offset, !.size = size]
    /\ UNCHANGED <<buffers, glBuffers, indexBuffers, vertexArrays, glVertexArrays,
                   meshes, driverDeletes>>

\* NewVertexArray() on its own
CallNewVertexArray ==
    /\ ResStep
    /\ Len(vertexArrays) < MaxVAOs
    /\ \E ok \in BOOLEAN :
          LET w == NewVertexArray(World, GenName(glVertexArrays, ok))
          IN  /\ Commit(w)
              /\ resLast' = [ResOp("NewVertexArray", NilObj) EXCEPT
                                !.ret = w.ret, !.err = w.err]

\* layout.Apply(va) on VertexArray object va: the layout's descriptors get
\* the stride, then va gets the descriptors.
CallApply(va) ==
    /\ nops < MaxResOps /\ nops' = nops + 1
    /\ layout' = StampStride(layout)
    /\ Commit(Apply(World, layout, va))
    /\ resLast' = ResOp("Apply", va)
    /\ UNCHANGED <<pipeState, valVars, builderVars, declared, availableBuffers,
                   inUseBuffers, poolCalls, poolLast, held, disciplined>>

\* NewIndexBuffer(data, usage) on its own
CallNewIndexBuffer(data) ==
    /\ ResStep
    /\ Len(buffers) < MaxBufs
    /\ \E ok \in BOOLEAN :
          LET w == NewIndexBuffer(World, data, "STATIC_DRAW", GenName(glBuffers, ok))
          IN  /\ Commit(w)
              /\ resLast' = [ResOp("NewIndexBuffer", NilObj) EXCEPT
                                !.ret = w.ret, !.err = w.err, !.indices = data]

\* NewIndexBuffer16(data, usage) on its own
CallNewIndexBuffer16(data) ==
    /\ ResStep
    /\ Len(buffers) < MaxBufs
    /\ \E ok \in BOOLEAN :
          LET w == NewIndexBuffer16(World, data, "STATIC_DRAW", GenName(glBuffers, ok))
          IN  /\ Commit(w)
              /\ resLast' = [ResOp("NewIndexBuffer16", NilObj) EXCEPT
                                !.ret = w.ret, !.err = w.err, !.indices = data]

\* va.SetIndexBuffer(ibo) on its own
CallSetIndexBuffer(va, ibo) ==
    /\ ResStep
    /\ Commit(SetIndexBuffer(World, va, ibo))
    /\ resLast' = [ResOp("SetIndexBuffer", va) EXCEPT !.ret = ibo]

\* va.Draw(mode, count, offset)
Draw(va, mode, count, offset) ==
    /\ ResStep
    /\ resCalls' =
         << <<"BindVertexArray", vertexArrays[va].ID>>,
            IF vertexArrays[va].IBO # NilObj
            THEN <<"DrawElements", mode, count,
                   indexBuffers[vertexArrays[va].IBO].IndexType, offset * 4>>
            ELSE <<"DrawArrays", mode, offset, count>>,
            <<"BindVertexArray", 0>> >>
    /\ resLast' = [ResOp("Draw", va) EXCEPT !.offset = offset, !.size = count]
    /\ UNCHANGED <<buffers, glBuffers, indexBuffers, vertexArrays, glVertexArrays,
                   meshes, driverDeletes>>

\* va.DrawInstanced(mode, count, instanceCount, offset)
DrawInstanced(va, mode, count, instanceCount, offset) ==
    /\ ResStep
    /\ resCalls' =
         << <<"BindVertexArray", vertexArrays[va].ID>>,
            IF vertexArrays[va].IBO # NilObj
            THEN <<"DrawElementsInstanced", mode, count,
                   indexBuffers[vertexArrays[va].IBO].IndexType, offset * 4,
                   instanceCount>>
            ELSE <<"DrawArraysInstanced", mode, offset, count, instanceCount>>,
            <<"BindVertexArray", 0>> >>
    /\ resLast' = [ResOp("DrawInstanced", va) EXCEPT !.offset = offset, !.size = count]
    /\ UNCHANGED <<buffers, glBuffers, indexBuffers, vertexArrays, glVertexArrays,
                   meshes, driverDeletes>>

\* i.UpdateUint32(offset, data) / i.UpdateUint16(offset, data) on IndexBuffer
\* object ibo, the elements being width bytes wide: with data the fields are
\* assigned first (stored is the IndexBuffer after that), then comes
\* i.Update(offset, gl.Ptr(data), size).
UpdateIndices(name, ibo, offset, data, width, stored) ==
    LET size == len(data) * width
        buf == buffers[indexBuffers[ibo].Buffer]
        op == [ResOp(name, ibo) EXCEPT !.offset = offset, !.size = size]
    IN  /\ ResStep
        /\ IF len(data) = 0
           THEN /\ resCalls' = << >>
                /\ resLast' = op
                /\ UNCHANGED indexBuffers
           ELSE /\ indexBuffers' = [indexBuffers EXCEPT ![ibo] = stored]
                /\ IF UpdateRejected(buf, offset, size)
                   THEN /\ resCalls' = << >>
                        /\ resLast' = [op EXCEPT !.err = RangeErr]
                   ELSE /\ resCalls' = UpdateCalls(buf, offset, size)
                        /\ resLast' = op
        /\ UNCHANGED <<buffers, glBuffers, vertexArrays, glVertexArrays, meshes,
                       driverDeletes>>

UpdateUint32(ibo, offset, data) ==
    UpdateIndices("UpdateUint32", ibo, offset, data, 4,
                  [indexBuffers[ibo] EXCEPT !.Count = len(data)])

UpdateUint16(ibo, offset, data) ==
    UpdateIndices("UpdateUint16", ibo, offset, data, 2,
                  [indexBuffers[ibo] EXCEPT !.Count = len(data),
                                            !.IndexType = "UNSIGNED_SHORT"])

\* No resource object exists yet.
NoResources ==
    /\ indexBuffers = << >>
    /\ vertexArrays = << >>
    /\ glVertexArrays = {}
    /\ meshes = << >>
    /\ resCalls = << >>
    /\ resLast = ResOp("none", NilObj)
    /\ driverDeletes = [Buffer |-> << >>, VertexArray |-> << >>]

-----------------------------------------------------------------------------
(* pipeline.New() on a fresh context, and the Pipeline's operations *)

New ==
    /\ currentState = DefaultState
    /\ callerAlias = FALSE
    /\ stateStack = << >>
    /\ lastProgramID = 0
    /\ lastBlendState = FALSE
    /\ lastDepthState = FALSE
    /\ lastCullState = FALSE
    /\ gl = GLInit
    /\ calls = << >>
    /\ last = OpAfter("New", NoErr, "other")
    /\ pushed = << >>
    /\ nops = 0

ValidateIdle ==
    /\ subject = DefaultState
    /\ original = DefaultState
    /\ verdict = "pending"

\* Nothing has been built, declared or created yet.
Idle ==
    /\ NewBuilder
    /\ layout = NewVertexLayout /\ declared = << >>
    /\ NoResources

Init == New /\ ValidateIdle /\ NewBufferPool /\ Idle

Next ==
    \/ \E state \in {Ref(s) : s \in StateInputs} \cup {NilState} : SetState(state)
    \/ PushState
    \/ PopState
    \/ \E program \in Programs \cup {Nil} : SetProgram(program)
    \/ \E a \in BlendArgs : SetBlending(a[1], a[2], a[3])
    \/ \E a \in DepthArgs : SetDepthTest(a[1], a[2], a[3])
    \/ \E a \in CullArgs : SetCulling(a[1], a[2])
    \/ \E a \in ViewportArgs : SetViewport(a[1], a[2], a[3], a[4])
    \/ \E enabled \in BOOLEAN : SetWireframe(enabled)

Spec == Init /\ [][Next]_vars

-----------------------------------------------------------------------------
(* The Pipeline and a caller that keeps writing to the State it handed over *)

CallerWriteArgs == { <<"WireframeMode", TRUE>>, <<"BlendEnabled", FALSE>> }

NextCaller ==
    \/ Next
    \/ \E a \in CallerWriteArgs : CallerWrites(a[1], a[2])

SpecCaller == Init /\ [][NextCaller]_vars

-----------------------------------------------------------------------------
(* State.Validate called on its own *)

\* The States Validate is tried on: every combination of these viewport
\* sizes (int32), blend switch and blend factors, the rest as in DefaultState.
ViewportSizes == {-1, 0, 1, 800}

BlendFactors == {BlendZero, "ONE", "SRC_ALPHA"}

ValidateInputs ==
    { [DefaultState EXCEPT !.ViewportWidth = w, !.ViewportHeight = h,
                           !.BlendEnabled = b, !.BlendSrc = src, !.BlendDst = dst] :
        w \in ViewportSizes, h \in ViewportSizes, b \in BOOLEAN,
        src \in BlendFactors, dst \in BlendFactors }

\* err := s.Validate(): reads s, writes nothing
CallValidate ==
    /\ verdict = "pending"
    /\ verdict' = Validate(subject)
    /\ UNCHANGED <<subject, original>>
    /\ UNCHANGED <<pipeVars, poolVars, extVars>>

InitValidate ==
    /\ New
    /\ NewBufferPool
    /\ Idle
    /\ subject \in ValidateInputs
    /\ original = subject
    /\ verdict = "pending"

NextValidate == CallValidate

SpecValidate == InitValidate /\ [][NextValidate]_vars

-----------------------------------------------------------------------------
(* A BufferPool and its callers *)

InitPool == New /\ ValidateIdle /\ NewBufferPool /\ Idle

NextPool ==
    \/ \E target \in Targets, size \in Sizes, usage \in Usages :
           Acquire(target, size, usage)
    \/ \E buffer \in {NilBuf} \cup (1..Len(buffers)) : Release(buffer)
    \/ Clear

SpecPool == InitPool /\ [][NextPool]_vars

-----------------------------------------------------------------------------
(* A Builder and its caller *)

Primitives == {"TRIANGLES", "LINES"}

InitBuilder == New /\ ValidateIdle /\ NewBufferPool /\ Idle

NextBuilder ==
    \/ \E program \in Programs \cup {Nil} : WithProgram(program)
    \/ \E a \in BlendArgs : WithBlending(a[1], a[2], a[3])
    \/ \E a \in DepthArgs : WithDepthTest(a[1], a[2], a[3])
    \/ \E a \in CullArgs : WithCulling(a[1], a[2])
    \/ \E a \in ViewportArgs : WithViewport(a[1], a[2], a[3], a[4])
    \/ \E enabled \in BOOLEAN : WithWireframe(enabled)
    \/ \E primitive \in Primitives : WithPrimitive(primitive)
    \/ Build

SpecBuilder == InitBuilder /\ [][NextBuilder]_vars

-----------------------------------------------------------------------------
(* A VertexLayout and its caller *)

\* Number of components: 1, 2, 3 or 4.
Counts == 1..4

\* Every Add* call declares the next attribute location.
Declare(name, count, vl) ==
    /\ Len(declared) < MaxAttrs
    /\ layout' = vl
    /\ declared' = Append(declared, <<name, count>>)
    /\ UNCHANGED <<pipeVars, valVars, poolVars, builderVars, resVars>>

CallAddFloat(count) ==
    Declare("AddFloat", count, AddFloat(layout, Len(layout.Attributes), count))

CallAddInt(count) ==
    Declare("AddInt", count, AddInt(layout, Len(layout.Attributes), count))

CallAddUByte(count, normalized) ==
    Declare("AddUByte", count,
            AddUByte(layout, Len(layout.Attributes), count, normalized))

InitLayout == New /\ ValidateIdle /\ NewBufferPool /\ Idle

NextLayout ==
    \/ \E count \in Counts : CallAddFloat(count)
    \/ \E count \in Counts : CallAddInt(count)
    \/ \E count \in Counts, normalized \in BOOLEAN : CallAddUByte(count, normalized)

SpecLayout == InitLayout /\ [][NextLayout]_vars

-----------------------------------------------------------------------------
(* Meshes, their vertex arrays and buffers, and their callers *)

\* The triangle of the tests (coordinates times ten).
Triangle == <<-5, -5, 0, 5, -5, 0, 0, 5, 0>>

VertexInputs == {Slice(Triangle)}

IndexInputs == {NilSlice, Slice(<< >>), Slice(<<0, 1, 2>>)}

LayoutInputs == {NilLayout, Ref(AddFloat(NewVertexLayout, 0, 3))}

UpdateOffsets == {0, 24, -4, MaxInt - 3}

UpdateSizes == {4, 12, 36}

InitRes == New /\ ValidateIdle /\ NewBufferPool /\ Idle

NextRes ==
    \/ \E vertices \in VertexInputs, indices \in IndexInputs, layoutPtr \in LayoutInputs :
           NewMesh(vertices, indices, layoutPtr)
    \/ \E m \in 1..Len(meshes) : DeleteMesh(m)
    \/ \E va \in 1..Len(vertexArrays) : DeleteVertexArray(va)
    \/ \E b \in 1..Len(buffers) : DeleteBuffer(b)
    \/ \E b \in 1..Len(buffers), offset \in UpdateOffsets, size \in UpdateSizes :
           Update(b, offset, size)

SpecRes == InitRes /\ [][NextRes]_vars

-----------------------------------------------------------------------------
(* A VertexLayout applied to vertex arrays *)

\* A position, a normalized colour and an id, declared in any order and
\* number, between and after the Apply calls.
NextApply ==
    \/ CallAddFloat(3)
    \/ CallAddUByte(4, TRUE)
    \/ CallAddInt(1)
    \/ CallNewVertexArray
    \/ \E va \in 1..Len(vertexArrays) : CallApply(va)

SpecApply == Init /\ [][NextApply]_vars

-----------------------------------------------------------------------------
(* Vertex arrays with index buffers of either width, drawn and updated *)

\* The index data written by the updates: none, two and eight indices.
IndexData == {Slice(<< >>), Slice(<<0, 1>>), Slice(<<0, 1, 2, 2, 1, 3, 0, 3>>)}

\* Draws start at element 0 or 3; updates at byte 0 or 4.
NextDraw ==
    \/ CallNewVertexArray
    \/ CallNewIndexBuffer(Slice(<<0, 1, 2>>))
    \/ CallNewIndexBuffer16(Slice(<<0, 1, 2, 2, 1, 3>>))
    \/ \E va \in 1..Len(vertexArrays), ibo \in 1..Len(indexBuffers) :
           CallSetIndexBuffer(va, ibo)
    \/ \E va \in 1..Len(vertexArrays), offset \in {0, 3} :
           Draw(va, "TRIANGLES", 3, offset)
    \/ \E va \in 1..Len(vertexArrays), offset \in {0, 3} :
           DrawInstanced(va, "TRIANGLES", 3, 2, offset)
    \/ \E ibo \in 1..Len(indexBuffers), offset \in {0, 4}, data \in IndexData :
           UpdateUint32(ibo, offset, data)
    \/ \E ibo \in 1..Len(indexBuffers), offset \in {0, 4}, data \in IndexData :
           UpdateUint16(ibo, offset, data)

SpecDraw == Init /\ [][NextDraw]_vars

-----------------------------------------------------------------------------
(* A BufferPool and meshes on one context *)

\* The pool serves vertex data of two sizes; the meshes come without layout.
NextAlloc ==
    \/ \E size \in Sizes : Acquire("ARRAY_BUFFER", size, "DYNAMIC_DRAW")
    \/ \E buffer \in {NilBuf} \cup (1..Len(buffers)) : Release(buffer)
    \/ \E vertices \in VertexInputs, indices \in IndexInputs :
           NewMesh(vertices, indices, NilLayout)
    \/ \E m \in 1..Len(meshes) : DeleteMesh(m)

SpecAlloc == InitRes /\ [][NextAlloc]_vars

-----------------------------------------------------------------------------
(* Claims about the Pipeline and State.Validate *)

\* C1: a PopState that matches a PushState succeeds, and GetState() is then
\* field for field what GetState() was at that PushState, whatever SetState,
\* setter and nested PushState/PopState calls came in between.
C1_PushPopRestores ==
    (last.op = "PopState" /\ last.matched)
        => (last.err = NoErr /\ Ref(GetState) = last.expect)

\* A nested PopState that undid a change, with the outer saved state, which
\* differs from the one restored, still waiting on the stack.
C1_Witness ==
    /\ last.op = "PopState" /\ last.matched /\ last.dirty /\ last.err = NoErr
    /\ Ref(GetState) = last.expect
    /\ Len(stateStack) = 1 /\ stateStack[1] # GetState

\* C2: PopState on an empty stack returns the empty-stack error and changes
\* neither the current state, the stack, the diff cache nor the context, and
\* issues no driver call.
C2_PopEmptyChangesNothing ==
    [][ (last'.op = "PopState" /\ Len(stateStack) = 0)
            => /\ last'.err = EmptyStackErr
               /\ calls' = << >>
               /\ UNCHANGED <<currentState, callerAlias, stateStack, lastProgramID,
                              lastBlendState, lastDepthState, lastCullState, gl>>
      ]_vars

\* PopState has failed on a Pipeline whose state, cache and context had
\* already left their initial values.
C2_Witness ==
    /\ last.op = "PopState" /\ last.err = EmptyStackErr
    /\ GetState # DefaultState /\ gl # GLInit /\ lastBlendState

\* C3: right after a successful SetState or PopState the context's blend and
\* depth-test toggles equal BlendEnabled and DepthEnabled of the state applied.
C3_TogglesFollowAppliedState ==
    (last.op \in {"SetState", "PopState"} /\ last.err = NoErr)
        => /\ gl.blend = GetState.BlendEnabled
           /\ gl.depthTest = GetState.DepthEnabled

\* C4: right after SetState, PopState or SetCulling the context culls faces
\* iff the applied CullEnabled is true and CullFace is not None.
C4_CullingFollowsAppliedState ==
    (last.op \in {"SetState", "PopState", "SetCulling"} /\ last.err = NoErr)
        => (gl.cull <=> (GetState.CullEnabled /\ GetState.CullFace # CullNone))

\* C9: Validate succeeds iff width > 0, height > 0 and not (blending on with
\* both factors Zero); it reports the viewport error when width or height is
\* not positive, the blend-function error otherwise; the State is not changed.
C9_ValidateVerdict ==
    verdict # "pending" =>
        LET viewportOk == subject.ViewportWidth > 0 /\ subject.ViewportHeight > 0
            blendOk == ~(subject.BlendEnabled /\ subject.BlendSrc = BlendZero
                           /\ subject.BlendDst = BlendZero)
        IN  /\ (verdict = NoErr) <=> (viewportOk /\ blendOk)
            /\ ~viewportOk => verdict = ViewportErr
            /\ (viewportOk /\ ~blendOk) => verdict = BlendErr
            /\ subject = original

\* Validate has reported the viewport on a State whose blend function is
\* invalid too.
C9_Witness ==
    /\ verdict = ViewportErr
    /\ subject.ViewportWidth > 0 /\ subject.ViewportHeight = 0
    /\ subject.BlendEnabled /\ subject.BlendSrc = BlendZero
    /\ subject.BlendDst = BlendZero

\* C10: SetState returns an error iff its argument is nil (a State failing
\* Validate is applied without error); the failing call changes neither the
\* current state, the stack nor the diff cache and issues no driver call.
C10_SetStateFailsOnlyOnNil ==
    [][ last'.op = "SetState"
            => /\ (last'.err # NoErr) <=> (last'.arg = NilState)
               /\ last'.err # NoErr
                    => /\ calls' = << >>
                       /\ UNCHANGED <<currentState, callerAlias, stateStack,
                                      lastProgramID, lastBlendState, lastDepthState,
                                      lastCullState, gl>>
               /\ last'.err = NoErr => Ref(currentState') = last'.arg
      ]_vars

\* SetState(nil) has failed on a Pipeline that holds a saved state and whose
\* current state, applied by an earlier SetState, fails Validate.
C10_Witness ==
    /\ last.op = "SetState" /\ last.err = NilStateErr /\ last.arg = NilState
    /\ callerAlias /\ GetState \in StateInputs /\ Validate(GetState) # NoErr
    /\ Len(stateStack) > 0

\* The fields of a State each fine-grained setter writes.
FieldsOf(setter) ==
    IF setter = "SetBlending" THEN <<"BlendEnabled", "BlendSrc", "BlendDst">>
    ELSE IF setter = "SetDepthTest" THEN <<"DepthEnabled", "DepthWrite", "DepthFunc">>
    ELSE IF setter = "SetCulling" THEN <<"CullEnabled", "CullFace">>
    ELSE IF setter = "SetViewport"
    THEN <<"ViewportX", "ViewportY", "ViewportWidth", "ViewportHeight">>
    ELSE <<"WireframeMode">>

FineSetters == {"SetBlending", "SetDepthTest", "SetCulling", "SetViewport", "SetWireframe"}

\* C17: SetBlending, SetDepthTest, SetCulling, SetViewport and SetWireframe
\* each set their own fields of GetState() to their arguments and leave every
\* other field and the state stack as they were.
C17_SettersWriteOwnFieldsOnly ==
    [][ (last'.op \in FineSetters /\ nops' # nops) =>
          LET own == FieldsOf(last'.op)
          IN  /\ \A i \in DOMAIN own : currentState'[own[i]] = last'.args[i]
              /\ \A f \in DOMAIN currentState \ {own[i] : i \in DOMAIN own} :
                    currentState'[f] = currentState[f]
              /\ stateStack' = stateStack
      ]_vars

\* SetViewport has changed the viewport of a state whose blending had been
\* switched on, with a saved state on the stack.
C17_Witness ==
    /\ last.op = "SetViewport" /\ last.args = <<10, 10, 640, 480>>
    /\ ViewportOf(GetState) = <<10, 10, 640, 480>>
    /\ GetState.BlendEnabled /\ Len(stateStack) = 1

\* C18: the diff cache's blend, depth and cull flags equal the enable state
\* this Pipeline issued last to the context for that toggle (the context's
\* toggle, which starts disabled and which nothing else writes).
C18_CacheFollowsIssuedToggles ==
    /\ lastBlendState = gl.blend
    /\ lastDepthState = gl.depthTest
    /\ lastCullState = gl.cull

\* The Enable and Disable calls for a capability among the driver calls cs.
Toggles(cs, capability) ==
    { i \in DOMAIN cs : cs[i] \in {<<"Enable", capability>>, <<"Disable", capability>>} }

\* C19: a successful SetState issues one Enable or Disable call for blending,
\* depth test or culling when the state's flag differs from the cached flag,
\* and none when it is equal; the second of two consecutive SetState calls
\* with equal flags issues no Enable or Disable call.
C19_TogglesIssuedOnChangeOnly ==
    [][ (last'.op = "SetState" /\ last'.err = NoErr /\ nops' # nops) =>
          LET s == Deref(last'.arg)
              n(capability) == Cardinality(Toggles(calls', capability))
          IN  /\ n("BLEND") = IF s.BlendEnabled # lastBlendState THEN 1 ELSE 0
              /\ n("DEPTH_TEST") = IF s.DepthEnabled # lastDepthState THEN 1 ELSE 0
              /\ n("CULL_FACE") = IF s.CullEnabled # lastCullState THEN 1 ELSE 0
              /\ ( /\ last.op = "SetState" /\ last.err = NoErr
                   /\ Deref(last.arg).BlendEnabled = s.BlendEnabled
                   /\ Deref(last.arg).DepthEnabled = s.DepthEnabled
                   /\ Deref(last.arg).CullEnabled = s.CullEnabled )
                  => \A i \in DOMAIN calls' : calls'[i][1] \notin {"Enable", "Disable"}
      ]_vars

\* The second operation on a Pipeline, a SetState, has issued parameter
\* calls and no Enable or Disable call: with the cache all off after New and
\* every state of StateInputs having a flag on, the first was a SetState with
\* the same flags.
C19_Witness ==
    /\ nops = 2 /\ last.op = "SetState" /\ last.err = NoErr
    /\ Len(calls) > 2
    /\ \A i \in DOMAIN calls : calls[i][1] \notin {"Enable", "Disable"}

\* C20: after a successful SetState(s) the context's viewport is s's and its
\* polygon mode is line iff s.WireframeMode; with s.BlendEnabled its blend
\* factors are s's, with s.DepthEnabled its depth function and mask are s's,
\* with s.CullEnabled and a face other than None its cull face is s's.
C20_ParametersAlwaysApplied ==
    (last.op = "SetState" /\ last.err = NoErr) =>
        LET s == Deref(last.arg)
        IN  /\ gl.viewport = <<s.ViewportX, s.ViewportY, s.ViewportWidth, s.ViewportHeight>>
            /\ (gl.polygonMode = "LINE") <=> s.WireframeMode
            /\ gl.polygonMode \in {"LINE", "FILL"}
            /\ s.BlendEnabled => (gl.blendSrc = s.BlendSrc /\ gl.blendDst = s.BlendDst)
            /\ s.DepthEnabled => (gl.depthFunc = s.DepthFunc /\ gl.depthMask = s.DepthWrite)
            /\ (s.CullEnabled /\ s.CullFace # CullNone) => gl.cullFace = s.CullFace

\* SetState has applied StateB, whose blending is on, without an Enable call
\* (the cache held blending on already), and the context has StateB's blend
\* factors, depth function and viewport.
C20_Witness ==
    /\ last.op = "SetState" /\ last.err = NoErr /\ last.arg = Ref(StateB)
    /\ Toggles(calls, "BLEND") = {}
    /\ gl.blendSrc = BlendZero /\ gl.blendDst = BlendZero
    /\ gl.depthFunc = "LESS" /\ gl.viewport = <<0, 0, 800, 600>>

\* The UseProgram calls among the driver calls cs.
Binds(cs) == { i \in DOMAIN cs : cs[i][1] = "UseProgram" }

\* The program a SetProgram call or a successful SetState call was given.
ProgramGiven(l) == IF l.op = "SetProgram" THEN l.args[1] ELSE Deref(l.arg).Program

ProgramCall(l) == l.op = "SetProgram" \/ (l.op = "SetState" /\ l.err = NoErr)

\* C21: SetState and SetProgram issue a program bind exactly when the program
\* given is not nil and its ID differs from the cached ID, and then cache
\* that ID; when the ID equals the cached ID no bind is issued.
C21_BindOnlyOnNewProgram ==
    [][ (ProgramCall(last') /\ nops' # nops) =>
          LET program == ProgramGiven(last')
          IN  IF program # Nil /\ ProgID(program) # lastProgramID
              THEN /\ Cardinality(Binds(calls')) = 1
                   /\ \A i \in Binds(calls') : calls'[i] = <<"UseProgram", ProgID(program)>>
                   /\ gl'.program = ProgID(program)
                   /\ lastProgramID' = ProgID(program)
              ELSE Binds(calls') = {} /\ gl'.program = gl.program
      ]_vars

\* SetProgram(P2) has bound P2 on a Pipeline to which SetState had applied
\* a State with program P1.
C21_Witness ==
    /\ last.op = "SetProgram" /\ last.args = <<"P2">>
    /\ calls = << <<"UseProgram", 2>> >> /\ lastProgramID = 2
    /\ callerAlias /\ GetState = [StateA EXCEPT !.Program = "P2"]

\* C22: SetProgram(nil) leaves the cached ID 0, so that the next SetProgram(P)
\* or SetState with program P issues a bind even when the context has P
\* bound; SetState with a State without program leaves the cached ID as it
\* was, so that a SetState following it with the program whose ID is cached
\* issues no bind.
C22_NilProgramAndTheCache ==
    [][ /\ (last'.op = "SetProgram" /\ last'.args = <<Nil>> /\ nops' # nops)
              => lastProgramID' = 0
        /\ ( /\ last.op = "SetProgram" /\ last.args = <<Nil>>
             /\ ProgramCall(last') /\ nops' # nops
             /\ ProgramGiven(last') # Nil )
              => <<"UseProgram", ProgID(ProgramGiven(last'))>>
                    \in { calls'[i] : i \in DOMAIN calls' }
        /\ ( /\ last'.op = "SetState" /\ last'.err = NoErr /\ nops' # nops
             /\ Deref(last'.arg).Program = Nil )
              => lastProgramID' = lastProgramID
        /\ ( /\ last.op = "SetState" /\ last.err = NoErr
             /\ Deref(last.arg).Program = Nil
             /\ last'.op = "SetState" /\ last'.err = NoErr /\ nops' # nops
             /\ Deref(last'.arg).Program # Nil
             /\ ProgID(Deref(last'.arg).Program) = lastProgramID )
              => Binds(calls') = {}
      ]_vars

\* The third operation, SetState(StateA) right after SetProgram(nil), has
\* bound P1 and switched nothing on or off: the first operation had applied
\* StateA, and P1 was bound in the context all along.
C22_Witness ==
    /\ last.op = "SetState" /\ last.err = NoErr /\ last.after = "SetProgram(nil)"
    /\ last.arg = Ref(StateA)
    /\ <<"UseProgram", 1>> \in { calls[i] : i \in DOMAIN calls }
    /\ Toggles(calls, "BLEND") = {} /\ Toggles(calls, "DEPTH_TEST") = {}
    /\ nops = 3

\* C27: after SetProgram(x), for x nil or a program and whatever operations
\* came before, GetState().Program is x.
C27_SetProgramSetsTheProgram ==
    last.op = "SetProgram" => GetState.Program = last.args[1]

\* C28: the Pipeline holds its current state as a value of its own: after
\* SetState(s) a setter call (SetBlending, SetDepthTest, SetCulling,
\* SetViewport, SetWireframe, SetProgram) changes no field of the caller's
\* object s, and a write of the caller to s does not change GetState().
C28_PipelineOwnsItsState ==
    [][ /\ ( /\ callerAlias /\ nops' # nops
             /\ last'.op \in FineSetters \cup {"SetProgram"} )
              => CallersState' = CallersState
        /\ (last'.op = "caller writes" /\ nops' # nops)
              => GetState' = GetState
      ]_vars

\* The driver names that the calls cs generated (op = "GenBuffers" or
\* "GenVertexArrays") or deleted (op = "DeleteBuffers", "DeleteVertexArrays").
NamesIn(cs, op) == { cs[i][2] : i \in { k \in DOMAIN cs : cs[k][1] = op } } \ {0}

\* C24: a construction that fails leaves nothing behind. An Acquire that
\* returns an error leaves the available lists and the in-use map as they
\* were; a NewMesh that returns an error returns no Mesh, records none, and
\* has deleted every buffer and vertex array name it generated, so that the
\* driver's live names are those from before the call.
C24_FailedConstructionLeavesNothing ==
    [][ /\ ( /\ nops' # nops /\ poolLast'.op = "Acquire" /\ poolLast'.err # NoErr
             /\ UNCHANGED <<resLast, resCalls>> )
            => /\ poolLast'.ret = NilBuf
               /\ availableBuffers' = availableBuffers
               /\ inUseBuffers' = inUseBuffers
        /\ ( /\ nops' # nops /\ resLast'.op = "NewMesh" /\ resLast'.err # NoErr
             /\ UNCHANGED <<poolLast, poolCalls>> )
            => /\ resLast'.ret = NilObj
               /\ meshes' = meshes
               /\ NamesIn(resCalls', "GenBuffers") = NamesIn(resCalls', "DeleteBuffers")
               /\ NamesIn(resCalls', "GenVertexArrays")
                    = NamesIn(resCalls', "DeleteVertexArrays")
               /\ glBuffers' = glBuffers
               /\ glVertexArrays' = glVertexArrays
      ]_vars

\* Acquire has failed on a pool that had a buffer available, and NewMesh has
\* failed at the vertex array after creating a vertex and an index buffer,
\* both of which it deleted.
C24_Witness ==
    /\ poolLast.op = "Acquire" /\ poolLast.err = GenBuffersErr
    /\ \E t \in Targets : availableBuffers[t] # << >>
    /\ resLast.op = "NewMesh" /\ resLast.err = MeshVertexArrayErr
    /\ Cardinality(NamesIn(resCalls, "GenBuffers")) = 2
    /\ Cardinality(NamesIn(resCalls, "DeleteBuffers")) = 2

\* The locations the calls cs enabled, in the order of the calls.
EnabledIn(cs) ==
    LET IsEnable(c) == c[1] = "EnableVertexAttribArray"
        es == SelectSeq(cs, IsEnable)
    IN  [i \in DOMAIN es |-> es[i][2]]

\* C25: after layout.Apply(va) every descriptor of the layout carries the
\* layout's Stride, and so does every attribute this Apply appended to va;
\* it appended one attribute per descriptor, in declaration order, after the
\* attributes va had, and enabled them in the driver in that order.
C25_ApplyStampsAndAppendsInOrder ==
    [][ (resLast'.op = "Apply" /\ nops' # nops) =>
          LET va == resLast'.obj
              n == Len(layout.Attributes)
              old == vertexArrays[va].Attributes
              new == vertexArrays'[va].Attributes
          IN  /\ layout'.Stride = layout.Stride
              /\ Len(layout'.Attributes) = n
              /\ \A i \in 1..n :
                    /\ layout'.Attributes[i].Stride = layout.Stride
                    /\ layout'.Attributes[i] =
                         [layout.Attributes[i] EXCEPT !.Stride = layout.Stride]
              /\ Len(new) = Len(old) + n
              /\ SubSeq(new, 1, Len(old)) = old
              /\ \A i \in 1..n :
                    /\ new[Len(old) + i].Stride = layout.Stride
                    /\ new[Len(old) + i] = layout'.Attributes[i]
                    /\ new[Len(old) + i].Location = i - 1
                    /\ new[Len(old) + i].Size = declared[i][2]
              /\ EnabledIn(resCalls') = [i \in 1..n |-> i - 1]
      ]_vars

\* Apply has given a vertex array the three attributes of a layout of stride
\* 20 (three floats, four bytes, one int), each with that stride.
C25_Witness ==
    /\ resLast.op = "Apply"
    /\ declared = << <<"AddFloat", 3>>, <<"AddUByte", 4>>, <<"AddInt", 1>> >>
    /\ layout.Stride = 20
    /\ vertexArrays[resLast.obj].Attributes = layout.Attributes
    /\ \A i \in 1..3 : layout.Attributes[i].Stride = 20
    /\ EnabledIn(resCalls) = <<0, 1, 2>>

\* The bytes one index of the given type takes.
ElementWidth(indexType) == IF indexType = "UNSIGNED_SHORT" THEN 2 ELSE 4

\* C26: Draw and DrawInstanced on a vertex array with an index buffer issue
\* an indexed draw with the buffer's IndexType and the byte offset
\* offset * (2 for 16-bit indices, 4 for 32-bit ones); without an index
\* buffer they issue an array draw of count vertices starting at offset.
C26_DrawUsesIndexTypeAndByteOffset ==
    resLast.op \in {"Draw", "DrawInstanced"} =>
        LET va == vertexArrays[resLast.obj]
            draw == resCalls[2]
            instanced == resLast.op = "DrawInstanced"
        IN  IF va.IBO # NilObj
            THEN /\ draw[1] = (IF instanced THEN "DrawElementsInstanced"
                                            ELSE "DrawElements")
                 /\ draw[3] = resLast.size
                 /\ draw[4] = indexBuffers[va.IBO].IndexType
                 /\ draw[5] = resLast.offset
                                * ElementWidth(indexBuffers[va.IBO].IndexType)
            ELSE /\ draw[1] = (IF instanced THEN "DrawArraysInstanced"
                                            ELSE "DrawArrays")
                 /\ draw[3] = resLast.offset
                 /\ draw[4] = resLast.size

\* C29: an UpdateUint32 or UpdateUint16 that fails with the range error
\* leaves the index buffer's Count and IndexType, and the buffer's Size and
\* ID, as they were.
C29_FailedIndexUpdateChangesNothing ==
    [][ ( /\ resLast'.op \in {"UpdateUint32", "UpdateUint16"} /\ nops' # nops
          /\ resLast'.err = RangeErr )
            => /\ indexBuffers'[resLast'.obj] = indexBuffers[resLast'.obj]
               /\ buffers' = buffers
      ]_vars

\* C30: Buffer.Update never uploads outside the buffer: every BufferSubData
\* it issues has 0 <= offset and offset + size <= Size, and a call with a
\* negative offset or size returns an error.
C30_UploadsStayInsideTheBuffer ==
    resLast.op = "Update" =>
        /\ (resLast.offset < 0 \/ resLast.size < 0) => resLast.err # NoErr
        /\ \A i \in DOMAIN resCalls :
              resCalls[i][1] = "BufferSubData" =>
                  /\ 0 <= resCalls[i][3]
                  /\ resCalls[i][4] <= buffers[resLast.obj].Size - resCalls[i][3]

-----------------------------------------------------------------------------
(* Claims about the BufferPool *)

InUseObjects == { inUseBuffers[id] : id \in DOMAIN inUseBuffers }

\* C5: whatever Acquire, Release (of any buffer Acquire ever returned, even
\* one released already) and Clear calls were made, no buffer is both
\* available and in use, and none is listed twice as available.
C5_AvailableAndInUseDisjoint ==
    \A t \in Targets :
        LET bufs == availableBuffers[t]
        IN  /\ \A i, j \in 1..Len(bufs) : i # j => bufs[i] # bufs[j]
            /\ \A i \in 1..Len(bufs) : bufs[i] \notin InUseObjects

\* C6: as long as callers release only buffers they hold, Acquire never
\* returns a buffer that some caller still holds.
C6_AcquireGivesUnheldBuffer ==
    [][ (disciplined /\ poolLast'.op = "Acquire" /\ nops' # nops
           /\ poolLast'.err = NoErr)
            => poolLast'.ret \notin held
      ]_vars

\* Acquire has handed a released buffer out again while another one is held.
C6_Witness ==
    /\ disciplined /\ poolLast.op = "Acquire" /\ poolLast.reused
    /\ poolLast.ret \in held /\ Cardinality(held) = 2

\* An Acquire(target, size, usage) that follows Release(A) and asks for A's
\* target and usage and for no more than A's size, with no other available
\* buffer fitting the request.
AcquireAfterReleaseOf(A) ==
    /\ poolLast.op = "Release" /\ poolLast.buf = A /\ A # NilBuf
    /\ poolLast'.op = "Acquire" /\ nops' # nops
    /\ poolLast'.target = buffers[A].Target
    /\ poolLast'.usage = buffers[A].Usage
    /\ poolLast'.size <= buffers[A].Size
    /\ \A i \in 1..Len(availableBuffers[buffers[A].Target]) :
          LET b == availableBuffers[buffers[A].Target][i]
          IN  b # A => ~(buffers[b].Size >= poolLast'.size
                           /\ buffers[b].Usage = poolLast'.usage)

ReturnsWithoutAllocating(A) ==
    /\ poolLast'.ret = A /\ poolLast'.err = NoErr
    /\ \A i \in DOMAIN poolCalls' : poolCalls'[i][1] # "GenBuffers"
    /\ buffers' = buffers

\* C7, as claimed: after Release(A), Acquire(same target, size <= A's, same
\* usage) returns A and allocates nothing, when no other matching buffer is
\* available.
C7_ReleasedBufferIsReused ==
    [][ \A A \in 1..Len(buffers) :
            AcquireAfterReleaseOf(A) => ReturnsWithoutAllocating(A)
      ]_vars

\* C7, amended: the same for a buffer A that was not deleted (A.ID is not 0)
\* when it was released.
C7_LiveReleasedBufferIsReused ==
    [][ \A A \in 1..Len(buffers) :
            (AcquireAfterReleaseOf(A) /\ buffers[A].ID # 0)
                => ReturnsWithoutAllocating(A)
      ]_vars

\* Scenario D: A (1024) and B acquired, A released, and the next Acquire,
\* asking for less than A's size, got A back.
C7_Witness ==
    /\ poolLast.op = "Acquire" /\ poolLast.after = "Release"
    /\ poolLast.reused /\ poolLast.ret = poolLast.afterBuf
    /\ poolLast.size < buffers[poolLast.ret].Size
    /\ Len(buffers) = 2 /\ Cardinality(held) = 2

Count(s, x) == Cardinality({ i \in DOMAIN s : s[i] = x })

\* C8: after Clear both sets are empty, every buffer that was in either set
\* has ID 0, and the driver delete was issued exactly once for each of them,
\* also after repeated Release of the same buffer.
C8_ClearDeletesEachBufferOnce ==
    [][ (poolLast'.op = "Clear" /\ nops' # nops)
            => /\ \A t \in Targets : availableBuffers'[t] = << >>
               /\ DOMAIN inUseBuffers' = {}
               /\ \A b \in PoolMembers :
                     /\ buffers'[b].ID = 0
                     /\ Count(poolCalls', <<"DeleteBuffers", buffers[b].ID>>) = 1
               /\ Len(poolCalls') = Cardinality(PoolMembers)
      ]_vars

\* Clear has run on a pool in which a buffer had been released twice, and
\* every buffer the pool created is now deleted, by one driver call each.
C8_Witness ==
    /\ poolLast.op = "Clear" /\ ~disciplined
    /\ Len(buffers) >= 1 /\ \A b \in 1..Len(buffers) : buffers[b].ID = 0
    /\ Len(poolCalls) = Len(buffers)

\* The positions of the available buffers of the target of the Acquire call
\* that the step makes, in release order, whose Usage is the one asked for and
\* whose Size is at least the size asked for.
Candidates ==
    LET bufs == availableBuffers[poolLast'.target]
    IN  { i \in 1..Len(bufs) : /\ buffers[bufs[i]].Usage = poolLast'.usage
                               /\ buffers[bufs[i]].Size >= poolLast'.size }

FirstCandidate == CHOOSE i \in Candidates : \A k \in Candidates : i <= k

\* C23: Acquire returns the first available buffer, in release order, with
\* the usage asked for and at least the size asked for, and takes that entry
\* alone off the available list, allocating nothing; only when there is none
\* does it allocate a buffer of exactly the size asked for, leaving the
\* available lists as they were. Either way the buffer it returns is in use.
C23_AcquireIsFirstFit ==
    [][ (poolLast'.op = "Acquire" /\ nops' # nops) =>
          LET t == poolLast'.target
              bufs == availableBuffers[t]
              ret == poolLast'.ret
          IN  IF Candidates # {}
              THEN /\ poolLast'.err = NoErr
                   /\ ret = bufs[FirstCandidate]
                   /\ availableBuffers' =
                        [availableBuffers EXCEPT ![t] =
                            [k \in 1..Len(bufs) - 1 |->
                                IF k < FirstCandidate THEN bufs[k] ELSE bufs[k + 1]]]
                   /\ buffers' = buffers /\ glBuffers' = glBuffers
                   /\ poolCalls' = << >>
                   /\ inUseBuffers'[buffers[ret].ID] = ret
              ELSE /\ availableBuffers' = availableBuffers
                   /\ poolLast'.err = NoErr =>
                        /\ ret \notin 1..Len(buffers)
                        /\ buffers'[ret].Size = poolLast'.size
                        /\ buffers'[ret].Usage = poolLast'.usage
                        /\ buffers'[ret].Target = t
                        /\ buffers'[ret].ID \in DOMAIN inUseBuffers'
                        /\ inUseBuffers'[buffers'[ret].ID] = ret
      ]_vars

\* Acquire has returned a larger buffer released earlier although a buffer of
\* exactly the size asked for, released later, was available too (and still
\* is); and an Acquire that found nothing fitting has allocated.
C23_Witness ==
    /\ poolLast.op = "Acquire" /\ poolLast.reused /\ poolLast.err = NoErr
    /\ buffers[poolLast.ret].Size > poolLast.size
    /\ poolLast.ret \in InUseObjects
    /\ \E i \in 1..Len(availableBuffers[poolLast.target]) :
          LET b == buffers[availableBuffers[poolLast.target][i]]
          IN  b.Size = poolLast.size /\ b.Usage = poolLast.usage
    /\ Len(buffers) = 2

-----------------------------------------------------------------------------
(* Claims about buffers, vertex arrays, meshes and layouts *)

\* C11: Update(offset, data, size) returns the range error and issues no
\* driver call whenever offset + size exceeds the buffer's Size; otherwise it
\* returns no error and issues exactly one upload, of [offset, offset+size).
\* (offset + size > Size is written offset > Size - size, the sum taken in
\* the integers and not in Go's int.)
C11_UpdateChecksRange ==
    resLast.op = "Update" =>
        LET buf == buffers[resLast.obj]
            uploads == { i \in DOMAIN resCalls : resCalls[i][1] = "BufferSubData" }
        IN  IF resLast.offset > buf.Size - resLast.size
            THEN resLast.err = RangeErr /\ resCalls = << >>
            ELSE /\ resLast.err = NoErr
                 /\ Cardinality(uploads) = 1
                 /\ \A i \in uploads :
                       resCalls[i] = <<"BufferSubData", buf.Target,
                                       resLast.offset, resLast.size>>

\* The Buffer and VertexArray objects a Delete on object obj is to delete.
DeletedBuffers(op, obj) ==
    IF op = "Buffer.Delete" THEN {obj}
    ELSE IF op = "Mesh.Delete"
    THEN {meshes[obj].VBO}
           \cup (IF meshes[obj].IBO # NilObj
                 THEN {indexBuffers[meshes[obj].IBO].Buffer} ELSE {})
    ELSE {}

DeletedArrays(op, obj) ==
    IF op = "VertexArray.Delete" THEN {obj}
    ELSE IF op = "Mesh.Delete" THEN {meshes[obj].VAO}
    ELSE {}

DeleteOps == {"Buffer.Delete", "VertexArray.Delete", "Mesh.Delete"}

\* C12: Delete on a Buffer, a VertexArray or a Mesh leaves the ID of every
\* handle it owns 0; over all the Delete calls made so far the driver delete
\* was issued exactly once for that handle; a call that finds the ID 0 issues
\* no driver call for it, and a call that finds it set issues one delete.
C12_DeleteIsIdempotent ==
    [][ (resLast'.op \in DeleteOps /\ nops' # nops) =>
          /\ \A b \in DeletedBuffers(resLast'.op, resLast'.obj) :
                /\ buffers'[b].ID = 0
                /\ driverDeletes'.Buffer[b] = 1
                /\ buffers[b].ID # 0 =>
                      Count(resCalls', <<"DeleteBuffers", buffers[b].ID>>) = 1
          /\ \A va \in DeletedArrays(resLast'.op, resLast'.obj) :
                /\ vertexArrays'[va].ID = 0
                /\ driverDeletes'.VertexArray[va] = 1
                /\ vertexArrays[va].ID # 0 =>
                      Count(resCalls', <<"DeleteVertexArrays", vertexArrays[va].ID>>) = 1
          /\ ( /\ \A b \in DeletedBuffers(resLast'.op, resLast'.obj) :
                     buffers[b].ID = 0
               /\ \A va \in DeletedArrays(resLast'.op, resLast'.obj) :
                     vertexArrays[va].ID = 0 )
              => resCalls' = << >>
      ]_vars

\* Delete has been called on an indexed mesh whose three handles were
\* deleted before, and has issued no driver call.
C12_Witness ==
    /\ resLast.op = "Mesh.Delete" /\ resCalls = << >>
    /\ meshes[resLast.obj].IBO # NilObj
    /\ driverDeletes.VertexArray[meshes[resLast.obj].VAO] = 1
    /\ driverDeletes.Buffer[meshes[resLast.obj].VBO] = 1
    /\ driverDeletes.Buffer[indexBuffers[meshes[resLast.obj].IBO].Buffer] = 1

\* C13: Mesh.Delete deletes the mesh's VertexArray, its VertexBuffer and,
\* when present, its IndexBuffer (the IDs are 0 afterwards); VertexArray.Delete
\* deletes the array handle only: the attached VBO and IBO keep their IDs and
\* no buffer delete is issued.
C13_DeletionFollowsOwnership ==
    [][ /\ (resLast'.op = "Mesh.Delete" /\ nops' # nops) =>
              LET m == meshes[resLast'.obj]
              IN  /\ vertexArrays'[m.VAO].ID = 0
                  /\ buffers'[m.VBO].ID = 0
                  /\ m.IBO # NilObj => buffers'[indexBuffers[m.IBO].Buffer].ID = 0
        /\ (resLast'.op = "VertexArray.Delete" /\ nops' # nops) =>
              /\ vertexArrays'[resLast'.obj].ID = 0
              /\ buffers' = buffers /\ glBuffers' = glBuffers
              /\ indexBuffers' = indexBuffers
              /\ \A i \in DOMAIN resCalls' : resCalls'[i][1] # "DeleteBuffers"
      ]_vars

\* Delete has been called on the vertex array of an indexed mesh, whose two
\* buffers are alive, after another mesh was deleted as a whole.
C13_Witness ==
    /\ resLast.op = "VertexArray.Delete"
    /\ vertexArrays[resLast.obj].ID = 0
    /\ vertexArrays[resLast.obj].VBO # NilBuf
    /\ buffers[vertexArrays[resLast.obj].VBO].ID # 0
    /\ vertexArrays[resLast.obj].IBO # NilObj
    /\ buffers[indexBuffers[vertexArrays[resLast.obj].IBO].Buffer].ID # 0
    /\ \E m \in 1..Len(meshes) :
          /\ meshes[m].VAO # resLast.obj
          /\ vertexArrays[meshes[m].VAO].ID = 0 /\ buffers[meshes[m].VBO].ID = 0

\* Bytes of one component of a descriptor declared by the call name.
ByteWidth(name) == IF name = "AddUByte" THEN 1 ELSE 4

\* count x byteWidth summed over the first k declarations of d.
RECURSIVE DeclaredBytes(_, _)
DeclaredBytes(d, k) ==
    IF k = 0 THEN 0 ELSE DeclaredBytes(d, k - 1) + d[k][2] * ByteWidth(d[k][1])

\* C14: after any AddFloat/AddInt/AddUByte calls on a new layout there is one
\* descriptor per call, the k-th descriptor's Offset is the sum of count x
\* byteWidth over the calls before it and Stride is that sum over all calls;
\* AddFloat(0,3) then AddFloat(1,2) gives Stride 20 and second Offset 12.
C14_OffsetsAndStride ==
    /\ Len(layout.Attributes) = Len(declared)
    /\ \A k \in DOMAIN layout.Attributes :
          /\ layout.Attributes[k].Offset = DeclaredBytes(declared, k - 1)
          /\ layout.Attributes[k].Size = declared[k][2]
    /\ layout.Stride = DeclaredBytes(declared, Len(declared))
    /\ declared = << <<"AddFloat", 3>>, <<"AddFloat", 2>> >>
          => layout.Stride = 20 /\ layout.Attributes[2].Offset = 12

\* Three floats, four unsigned bytes and an int have been declared.
C14_Witness ==
    /\ declared = << <<"AddFloat", 3>>, <<"AddUByte", 4>>, <<"AddInt", 1>> >>
    /\ layout.Attributes[3].Offset = 16 /\ layout.Stride = 20

\* C15: a Mesh that NewMesh built from n > 0 indices has an index buffer with
\* Count = n; one built from nil or empty indices has none; either way it has
\* a VertexArray and a VertexBuffer, both alive and attached to each other.
C15_IndexBufferIffIndices ==
    (resLast.op = "NewMesh" /\ resLast.err = NoErr) =>
        LET m == meshes[resLast.ret]
            n == Len(resLast.indices.elems)
        IN  /\ n > 0 => /\ m.IBO # NilObj
                        /\ indexBuffers[m.IBO].Count = n
                        /\ vertexArrays[m.VAO].IBO = m.IBO
            /\ n = 0 => m.IBO = NilObj /\ vertexArrays[m.VAO].IBO = NilObj
            /\ m.VAO # NilObj /\ vertexArrays[m.VAO].ID # 0
            /\ m.VBO # NilBuf /\ buffers[m.VBO].ID # 0
            /\ vertexArrays[m.VAO].VBO = m.VBO

\* NewMesh has built a mesh from an empty, non-nil index sequence after one
\* from three indices.
C15_Witness ==
    /\ resLast.op = "NewMesh" /\ resLast.err = NoErr
    /\ resLast.indices = Slice(<< >>)
    /\ meshes[resLast.ret].IBO = NilObj
    /\ \E m \in 1..Len(meshes) :
          meshes[m].IBO # NilObj /\ indexBuffers[meshes[m].IBO].Count = 3

\* The baseline of the specification.
Baseline ==
    [ Program |-> Nil,
      DepthEnabled |-> TRUE, DepthWrite |-> TRUE, DepthFunc |-> "LESS",
      CullEnabled |-> TRUE, CullFace |-> "BACK",
      BlendEnabled |-> FALSE, BlendSrc |-> "SRC_ALPHA",
      BlendDst |-> "ONE_MINUS_SRC_ALPHA",
      ViewportX |-> 0, ViewportY |-> 0, ViewportWidth |-> 800, ViewportHeight |-> 600,
      WireframeMode |-> FALSE, Primitive |-> "TRIANGLES" ]

\* C16: GetState() of a new Pipeline, and what Build() returns when no With*
\* call was made, are the baseline (depth on with write and Less, culling on
\* with Back, blending off, viewport (0,0,800,600), fill mode, Triangles, no
\* program), and Validate accepts them.
C16_NewStateIsBaseline ==
    /\ last.op = "New" => (GetState = Baseline /\ Validate(GetState) = NoErr)
    /\ (builder.op = "Build" /\ builder.withs = 0)
          => (builder.state = Baseline /\ Validate(builder.state) = NoErr)

\* Build() has been called on a new Builder, next to a new Pipeline.
C16_Witness ==
    builder.op = "Build" /\ builder.withs = 0 /\ last.op = "New" /\ nops = 0

=============================================================================
